---- MODULE Spec2Model ----
(***************************************************************************)
(* A model of orchestrator.py: the run supervisor (orchestrate), its flow  *)
(* workers (orchestrate.worker), the flow engine (_run_flow / run_from)    *)
(* with its branch workers, the shared state they touch, and the flow      *)
(* expansion (_generate_flow_configs), which is checked on its own under   *)
(* GenSpec.                                                                *)
(*                                                                         *)
(* Threads: the supervisor (main thread of orchestrate), the monitor, one  *)
(* flow worker per launched flow, and one branch worker per element of an  *)
(* array step.  A thread of the flow engine is named by the path of its    *)
(* branch directory below flow_dir: <<>> is the flow worker itself walking *)
(* in flow_dir, <<0>> is flow_dir/branch_0, <<0, 1>> is                     *)
(* flow_dir/branch_0/branch_1, ...                                         *)
(***************************************************************************)
EXTENDS Integers, Sequences, FiniteSets, TLC

(* Bounds of the model *)
NumFlows == 3
NumSteps == 2
MaxItems == 2
MaxParallel == 2
MaxFailures == 2
FanFlows == 2

Flows == 1..NumFlows
Steps == 0..(NumSteps - 1)

VARIABLES
    total,                  \* len(flow_configs)
    parallel,               \* orchestrate(parallel=...)
    max_flow_failures,      \* orchestrate(max_flow_failures=...)
    halt_on_max_failures,   \* orchestrate(halt_on_max_failures=...)
    array,                  \* array[f][i]: step i of flow_configs[f] has "array": true
    config,                 \* config[f][i]: the other keys of step i of flow_configs[f]
    ipaths,                 \* ipaths[f]: flow_configs[f].interpolated_paths
    max_flows,              \* <<>>, or <<n>> when the call passes max_flows=n
    list_codex_final_paths, \* orchestrate(list_codex_final_paths=...)
    final_step_is_codex,    \* base_config is not empty and its last step has type codex
    run_dir,                \* run_dir and run_dir/finished.txt have been created
    sup_pc,                 \* position of the supervisor in orchestrate
    next_flow,              \* index of the flow the `for flow_conf` loop is at
    flow_dirs,              \* flows whose flow_dir has been created under run_dir
    late_started,           \* history: flows whose worker was started with the latch already set
    fl,                     \* fl[f]: the flow worker of flow f and its _run_flow frame
    th,                     \* th[f][p]: the engine thread walking branch directory p of flow f
    step_counts,            \* step_counts[i], the live active counter of step i
    cancel_event,           \* the cancellation latch
    failed_flows,
    finished,
    cancel_message_printed,
    failed_flow_paths,
    results,                \* the accumulated result list of orchestrate
    finished_file,          \* lines of run_dir/finished.txt
    failed_file,            \* run_dir/failed_files: <<"absent">> or <<"lines", seq of lines>>
    msg_count,              \* times "Maximum flow failures reached" was printed
    stop_event,
    mon_pc,                 \* position of the monitor thread
    outcome,                \* "none" | "returned" | "raised" (MaxFlowFailuresExceeded)
                            \* | "type_error" | "value_error" (the call is rejected)
    base_config,            \* _generate_flow_configs(base_config, ...)
    key_files,              \* its key_files: the keys in order, each with its manifest
    append_filepath,        \* its append_filepath
    loaded,                 \* loaded[k]: the (path, text) entries of the k-th key
    flow_configs,           \* the list it returns
    gen_pc,                 \* position in _generate_flow_configs
    exit_code,              \* <<>>, or <<n>> once the command-line program exited with n
    printed_paths,          \* results whose path a flow worker has printed
    api,                    \* a call of call_openai_api: its arguments, position and locals
    cx,                     \* a call of run_codex_cli: its arguments, position and locals
    lk                      \* the locks of a run: their holders and each thread's way through them

params == <<total, parallel, max_flow_failures, halt_on_max_failures, array, config,
            ipaths, max_flows, list_codex_final_paths, final_step_is_codex>>
supVars == <<sup_pc, next_flow, flow_dirs, late_started>>
progressVars == <<cancel_event, failed_flows, finished, cancel_message_printed,
                  failed_flow_paths, results>>
outVars == <<finished_file, failed_file, msg_count, outcome>>
monVars == <<stop_event, mon_pc>>
genVars == <<base_config, key_files, append_filepath, loaded, flow_configs, gen_pc>>
runVars == <<params, run_dir, supVars, fl, th, step_counts, progressVars, outVars, monVars>>
cliVars == <<exit_code, printed_paths>>
utilVars == <<api, cx, lk>>
vars == <<runVars, genVars, cliVars, utilVars>>

----------------------------------------------------------------------------
(* Inputs *)

\* Source paths bound to a flow by the expansion: one per key, in key order.
KeyAPaths == <<"a1", "a2", "a3", "a4", "a5">>
KeyBPaths == <<"b1", "b2", "b3", "b4", "b5">>

\* The interpolated_paths of the flows of a run: hand-built flows without
\* paths, and a mix of flows expanded over two keys, one key and none.
NoPaths == [f \in Flows |-> <<>>]
MixedPaths == [f \in Flows |-> IF f % 3 = 1 THEN <<KeyAPaths[f], KeyBPaths[f]>>
                               ELSE IF f % 3 = 2 THEN <<KeyAPaths[f]>>
                               ELSE <<>>]
InterpolatedPathsInputs == {NoPaths, MixedPaths}

\* Shapes of a flow configuration: which steps have "array": true.
Linear == [i \in Steps |-> FALSE]
FanFirst == [i \in Steps |-> i = 0]
FanLast == [i \in Steps |-> i = NumSteps - 1]
FanAll == [i \in Steps |-> TRUE]

\* A text is a sequence of tokens <<tag, number>>; the empty text is <<>>.
\* A reference of an `inputs` list: a step name or an absolute step index.
ByName(s) == <<"name", s>>
ByIndex(i) == <<"index", i>>

\* The keys of a step other than `array`: its name, its type (a step with
\* `cmd` and no type is listed as cmd), whether what it runs prints anything
\* (`printf ''` prints nothing), and the keys `inputs`,
\* `exit_on_empty_response` and `exit_on_response_contains` (<<>>: not set).
PlainStep(i) == [name |-> <<"step_name", i>>, type |-> "cmd", prints |-> TRUE,
                 inputs |-> <<>>,
                 exit_on_empty_response |-> FALSE,
                 exit_on_response_contains |-> <<>>]

\* The type of the last step of flow f: codex for flow 1, cmd for flow 2,
\* openai for flow 3.
LastStepType(f) == IF f % 3 = 1 THEN "codex" ELSE IF f % 3 = 2 THEN "cmd" ELSE "openai"

\* A configuration with the last step of every flow retyped.
WithLastStepTypes(conf) ==
    [f \in Flows |-> [i \in Steps |->
        IF i = NumSteps - 1 THEN [conf[f][i] EXCEPT !.type = LastStepType(f)]
        ELSE conf[f][i]]]

\* Flows of cmd steps ending in a codex step.
PlainConfig ==
    [f \in Flows |-> [i \in Steps |->
        IF i = NumSteps - 1 THEN [PlainStep(i) EXCEPT !.type = "codex"] ELSE PlainStep(i)]]

\* Flow 1 lists `inputs` on its last step (the first step by name, then by
\* index), flow 2 opens with a step that prints nothing and has
\* exit_on_empty_response, flow 3 with a step that has
\* exit_on_response_contains set to what the step prints.  The flows end
\* in steps of different types.
KeyedConfig ==
    WithLastStepTypes(
    [f \in Flows |-> [i \in Steps |->
        IF f = 1 /\ i = NumSteps - 1 /\ i > 0
        THEN [PlainStep(i) EXCEPT !.inputs = <<ByName(PlainStep(0).name), ByIndex(0)>>]
        ELSE IF f = 2 /\ i = 0
        THEN [PlainStep(i) EXCEPT !.prints = FALSE, !.exit_on_empty_response = TRUE]
        ELSE IF f = 3 /\ i = 0
        THEN [PlainStep(i) EXCEPT !.exit_on_response_contains = <<<<"step", 0>>>>]
        ELSE PlainStep(i)]])

\* What a call may pass as max_flows: nothing, or a number from -1 up.
MaxFlowsInputs == {<<>>} \cup { <<n>> : n \in (-1)..NumFlows }

\* The calls explored: NumFlows linear flows under every setting of the
\* supervisor's parameters, FanFlows flows with array steps (alike, or one
\* linear flow beside one that fans out at every step), and calls with a
\* failure budget of 0 (halting or not) or with max_flows, all of them
\* listing the final paths of a base configuration that ends in a codex
\* step, and calls that do not list them or whose base configuration does
\* not end in a codex step.
RunInputs ==
    [total : {NumFlows}, parallel : 1..MaxParallel,
     max_flow_failures : 1..MaxFailures, halt : BOOLEAN,
     array : {[f \in Flows |-> Linear]}, config : {KeyedConfig},
     ipaths : InterpolatedPathsInputs, max_flows : {<<>>},
     list : {TRUE}, final_codex : {TRUE}]
    \cup
    [total : {FanFlows}, parallel : 1..MaxParallel,
     max_flow_failures : {1}, halt : BOOLEAN,
     array : {[f \in Flows |-> FanFirst], [f \in Flows |-> FanLast],
              [f \in Flows |-> IF f = 1 THEN Linear ELSE FanAll],
              [f \in Flows |-> IF f = 1 THEN FanAll ELSE Linear]},
     config : {PlainConfig}, ipaths : {MixedPaths}, max_flows : {<<>>},
     list : {TRUE}, final_codex : {TRUE}]
    \cup
    [total : {NumFlows}, parallel : {1},
     max_flow_failures : 0..1, halt : {TRUE},
     array : {[f \in Flows |-> Linear]}, config : {KeyedConfig},
     ipaths : {NoPaths}, max_flows : MaxFlowsInputs,
     list : {TRUE}, final_codex : {TRUE}]
    \cup
    [total : {NumFlows}, parallel : {1},
     max_flow_failures : {0}, halt : {FALSE},
     array : {[f \in Flows |-> Linear]}, config : {KeyedConfig},
     ipaths : {NoPaths}, max_flows : {<<>>},
     list : {TRUE}, final_codex : {TRUE}]
    \cup
    [total : {NumFlows}, parallel : {1},
     max_flow_failures : {MaxFailures}, halt : {TRUE},
     array : {[f \in Flows |-> Linear]}, config : {KeyedConfig},
     ipaths : {NoPaths}, max_flows : {<<>>},
     list : BOOLEAN, final_codex : BOOLEAN]

----------------------------------------------------------------------------
(* Pure helpers *)

\* The elements of a list.
Range(seq) == { seq[i] : i \in 1..Len(seq) }

\* sep.join(paths): the elements with the separator between neighbours.
RECURSIVE Join(_, _)
Join(sep, paths) ==
    IF Len(paths) = 0 THEN <<>>
    ELSE IF Len(paths) = 1 THEN <<paths[1]>>
    ELSE <<paths[1], sep>> \o Join(sep, Tail(paths))

\* record_finished: the line written for a flow.
FinishedLine(status, paths) ==
    IF Len(paths) = 0 THEN <<status>>
    ELSE <<status, " ">> \o Join(", ", paths)

\* A result tuple (output, path, curr_dir) of a branch walk: which flow and
\* branch directory it belongs to, what kind of file `path` is, the step
\* index at which the walk ended, and the output text.
Result(f, p, kind, idx, output) ==
    [flow |-> f, dir |-> p, kind |-> kind, idx |-> idx, output |-> output]

\* What a step that succeeds writes to its output, given the text it
\* receives: the received text followed by the step's own mark (a command
\* such as `cat; printf mark`), or nothing for a command that prints nothing.
StepOutput(f, i, received) ==
    IF config[f][i].prints THEN Append(received, <<"step", i>>) ELSE <<>>

\* The output of an array step that is the JSON text of a list of n items.
ArrayText(n) == << <<"list", n>> >>

\* json.loads(output) with isinstance(items, list): the items of a list text,
\* strings and numbers in turn.
IsList(text) == Len(text) = 1 /\ text[1][1] = "list"
Loads(text) ==
    [k \in 1..text[1][2] |->
        IF k % 2 = 1 THEN [type |-> "str", text |-> << <<"char", k - 1>> >>]
        ELSE [type |-> "num", text |-> << <<"digit", k - 1>> >>]]

\* json.dumps(item): a string in double quotes, a number as its digits.
Dumps(item) ==
    IF item.type = "str" THEN << <<"quote", 0>> >> \o item.text \o << <<"quote", 0>> >>
    ELSE item.text

\* Variant: every item is re-serialised, strings included.
ItemStrAlwaysDumps(item) == Dumps(item)

\* item_str = json.dumps(item) if not isinstance(item, str) else item
ItemStr(item) == IF item.type = "str" THEN item.text ELSE Dumps(item)

\* Every branch directory below a flow_dir: branch indices to the depth at
\* which every step of the flow fans out.
Dirs == UNION { [1..n -> 0..(MaxItems - 1)] : n \in 0..NumSteps }

Parent(p) == SubSeq(p, 1, Len(p) - 1)

\* Variant: a branch directory is made under flow_dir instead of curr_dir.
CurrDirUnderFlowDir(f, p) ==
    IF Len(p) = 0 THEN <<"flow", f>> ELSE <<"flow", f, "branch", p[Len(p)]>>

\* curr_dir of the walk of thread p of flow f: the flow_dir that mkdtemp
\* made for the flow, then curr_dir / branch_k for each fan-out on the way.
RECURSIVE CurrDir(_, _)
CurrDir(f, p) ==
    IF Len(p) = 0 THEN <<"flow", f>>
    ELSE CurrDir(f, Parent(p)) \o <<"branch", p[Len(p)]>>

ChildrenOf(f, p) ==
    { q \in DOMAIN th[f] : Len(q) = Len(p) + 1 /\ SubSeq(q, 1, Len(p)) = p }

\* len([t for t in threads if t.is_alive()])
ActiveWorkers == Cardinality({ f \in Flows : fl[f].pc \notin {"none", "dead"} })

----------------------------------------------------------------------------
(* Initial state: orchestrate is being called.                              *)

\* `bump` keeps the value the worker's `finished += 1` produced (0 before it),
\* `trip_at` where the supervisor was when this worker set the latch ("none"
\* for a worker that did not set it).
NewWorker == [pc |-> "none", flow_failed |-> FALSE, marker |-> FALSE,
              res |-> <<>>, trigger |-> FALSE, raised |-> FALSE,
              saw_cancel |-> FALSE, bump |-> 0, trip_at |-> "none"]

\* A frame of run_from(idx, prev_output, prev_path, curr_dir) and of the walk
\* it begins.  `first` and `given` keep the arguments the walk began with,
\* `started` the indices of the steps it started, `received` the text each of
\* them was given, `outputs` the output of each step that succeeded, `exit`
\* and `ret` how the walk ended and what it returned.
NewThread(pc, idx, given) ==
    [pc |-> pc, idx |-> idx, res |-> <<>>, cancelled |-> FALSE,
     prev_output |-> given, first |-> idx, given |-> given,
     started |-> <<>>, received |-> <<>>, outputs |-> <<>>,
     exit |-> "none", ret |-> <<>>]

\* The state in which orchestrate is called with one of the calls `inputs`
\* while the directory that mkdtemp will return holds `earlier` as its
\* finished.txt (no lines for the fresh directory mkdtemp makes).
RunInitWith(inputs, earlier) ==
    /\ \E inp \in inputs :
          /\ total = inp.total
          /\ parallel = inp.parallel
          /\ max_flow_failures = inp.max_flow_failures
          /\ halt_on_max_failures = inp.halt
          /\ array = inp.array
          /\ config = inp.config
          /\ ipaths = inp.ipaths
          /\ max_flows = inp.max_flows
          /\ list_codex_final_paths = inp.list
          /\ final_step_is_codex = inp.final_codex
    /\ run_dir = FALSE
    /\ sup_pc = "call"
    /\ next_flow = 1
    /\ flow_dirs = {}
    /\ late_started = {}
    /\ fl = [f \in Flows |-> NewWorker]
    /\ th = [f \in Flows |-> <<>>]
    /\ step_counts = [i \in Steps |-> 0]
    /\ cancel_event = FALSE
    /\ failed_flows = 0
    /\ finished = 0
    /\ cancel_message_printed = FALSE
    /\ failed_flow_paths = <<>>
    /\ results = <<>>
    /\ finished_file = earlier
    /\ failed_file = <<"absent">>
    /\ msg_count = 0
    /\ stop_event = FALSE
    /\ mon_pc = "none"
    /\ outcome = "none"
    /\ exit_code = <<>>
    /\ printed_paths = {}

RunInit == RunInitWith(RunInputs, <<>>)

\* No call of call_openai_api or run_codex_cli is being followed.
UtilIdle ==
    /\ api = [pc |-> "idle"]
    /\ cx = [pc |-> "idle"]
    /\ lk = [pc |-> "idle"]

\* A call of orchestrate on flows that were built by hand: the expansion is
\* not part of the run.
Init ==
    /\ RunInit
    /\ base_config = <<>>
    /\ key_files = <<>>
    /\ append_filepath = FALSE
    /\ loaded = <<>>
    /\ flow_configs = <<>>
    /\ gen_pc = "idle"
    /\ UtilIdle

----------------------------------------------------------------------------
(* The flow engine: _run_flow and run_from *)

\* _run_flow after run_from(0, ...) returned R: write flow_failed.txt when the
\* flow failed and hand (results, flow_failed) to the flow worker.
RunFlowReturns(f, R, failedNow) ==
    fl' = [fl EXCEPT ![f] = [@ EXCEPT !.pc = "commit",
                                      !.flow_failed = failedNow,
                                      !.marker = failedNow,
                                      !.res = R]]

\* Variant: the FlowCancelled handler re-raises without writing flow_failed.txt.
RunFlowCancelledNoMarker(f, saw) ==
    fl' = [fl EXCEPT ![f] = [@ EXCEPT !.pc = "c_record",
                                      !.flow_failed = TRUE,
                                      !.raised = TRUE,
                                      !.saw_cancel = @ \/ saw]]

\* _run_flow when run_from(0, ...) raised FlowCancelled: mark_failed, write
\* flow_failed.txt, re-raise to the flow worker.
RunFlowCancelled(f, saw) ==
    fl' = [fl EXCEPT ![f] = [@ EXCEPT !.pc = "c_record",
                                      !.flow_failed = TRUE,
                                      !.marker = TRUE,
                                      !.raised = TRUE,
                                      !.saw_cancel = @ \/ saw]]

\* Variant: a branch worker replaces the fan-out's results with its own
\* instead of extending them.
ThreadReturnsOverwrites(f, p, R, mark) ==
    LET failedNow == fl[f].flow_failed \/ mark IN
    LET ended == [th[f][p] EXCEPT !.pc = "done", !.exit = "returned", !.ret = R] IN
    IF p = <<>>
    THEN /\ th' = [th EXCEPT ![f][p] = ended]
         /\ RunFlowReturns(f, R, failedNow)
    ELSE /\ th' = [th EXCEPT ![f] = [@ EXCEPT ![p] = ended,
                                              ![Parent(p)].res = R]]
         /\ fl' = [fl EXCEPT ![f].flow_failed = failedNow]

\* The walk of thread p returns the result list R to whoever started the
\* thread: _run_flow for the flow worker, the branch worker closure (which
\* extends the fan-out's results under res_lock) for a branch.  `mark` is
\* true when the walk called mark_failed() on its way out.
ThreadReturns(f, p, R, mark) ==
    LET failedNow == fl[f].flow_failed \/ mark IN
    LET ended == [th[f][p] EXCEPT !.pc = "done", !.exit = "returned", !.ret = R] IN
    IF p = <<>>
    THEN /\ th' = [th EXCEPT ![f][p] = ended]
         /\ RunFlowReturns(f, R, failedNow)
    ELSE /\ th' = [th EXCEPT ![f] = [@ EXCEPT ![p] = ended,
                                              ![Parent(p)].res = @ \o R]]
         /\ fl' = [fl EXCEPT ![f].flow_failed = failedNow]

\* Variant: a branch worker that catches FlowCancelled marks the flow failed
\* but does not set `cancelled` in the fan-out's frame.
ThreadCancelledFlagLost(f, p, saw) ==
    LET ended == [th[f][p] EXCEPT !.pc = "done", !.exit = "cancelled"] IN
    IF p = <<>>
    THEN /\ th' = [th EXCEPT ![f][p] = ended]
         /\ RunFlowCancelled(f, saw)
    ELSE /\ th' = [th EXCEPT ![f][p] = ended]
         /\ fl' = [fl EXCEPT ![f] = [@ EXCEPT !.flow_failed = TRUE,
                                              !.saw_cancel = @ \/ saw]]

\* The walk of thread p raises FlowCancelled.  In a branch worker the closure
\* catches it: cancelled = True in the fan-out's frame, mark_failed(), return.
\* `saw` is true when the raise comes from observing the latch (not from a
\* join re-raising what a child reported).
ThreadCancelled(f, p, saw) ==
    LET ended == [th[f][p] EXCEPT !.pc = "done", !.exit = "cancelled"] IN
    IF p = <<>>
    THEN /\ th' = [th EXCEPT ![f][p] = ended]
         /\ RunFlowCancelled(f, saw)
    ELSE /\ th' = [th EXCEPT ![f] = [@ EXCEPT ![p] = ended,
                                              ![Parent(p)].cancelled = TRUE]]
         /\ fl' = [fl EXCEPT ![f] = [@ EXCEPT !.flow_failed = TRUE,
                                              !.saw_cancel = @ \/ saw]]

\* Branch worker entry: `if cancel_event and cancel_event.is_set()`.
BranchWorkerEntry(f, p) ==
    /\ th[f][p].pc = "entry"
    /\ IF cancel_event
       THEN ThreadCancelled(f, p, TRUE)
       ELSE /\ th' = [th EXCEPT ![f][p].pc = "check"]
            /\ UNCHANGED fl
    /\ UNCHANGED <<genVars, cliVars, utilVars, params, run_dir, supVars, step_counts, progressVars, outVars, monVars>>

\* Variant: the terminal case is tested before the cancellation check.
WalkCheckTerminalFirst(f, p) ==
    LET t == th[f][p] IN
    /\ t.pc = "check"
    /\ IF t.idx >= NumSteps
       THEN ThreadReturns(f, p, <<Result(f, p, "output", t.idx, t.prev_output)>>, FALSE)
       ELSE IF cancel_event
       THEN ThreadCancelled(f, p, TRUE)
       ELSE /\ th' = [th EXCEPT ![f][p].pc = "start"]
            /\ UNCHANGED fl
    /\ UNCHANGED <<genVars, cliVars, utilVars, params, run_dir, supVars, step_counts, progressVars, outVars, monVars>>

\* Variant: run_from does not look at the latch.
WalkCheckIgnoresLatch(f, p) ==
    LET t == th[f][p] IN
    /\ t.pc = "check"
    /\ IF t.idx >= NumSteps
       THEN ThreadReturns(f, p, <<Result(f, p, "output", t.idx, t.prev_output)>>, FALSE)
       ELSE /\ th' = [th EXCEPT ![f][p].pc = "start"]
            /\ UNCHANGED fl
    /\ UNCHANGED <<genVars, cliVars, utilVars, params, run_dir, supVars, step_counts, progressVars, outVars, monVars>>

\* run_from entry: the cancellation check, then the terminal case.
WalkCheck(f, p) ==
    LET t == th[f][p] IN
    /\ t.pc = "check"
    /\ IF cancel_event
       THEN ThreadCancelled(f, p, TRUE)
       ELSE IF t.idx >= NumSteps
       THEN ThreadReturns(f, p, <<Result(f, p, "output", t.idx, t.prev_output)>>, FALSE)
       ELSE /\ th' = [th EXCEPT ![f][p].pc = "start"]
            /\ UNCHANGED fl
    /\ UNCHANGED <<genVars, cliVars, utilVars, params, run_dir, supVars, step_counts, progressVars, outVars, monVars>>

\* Variant: a walk enters a step only while fewer than `parallel` walks of
\* its flow are inside one.
WalkStartCapped(f, p) ==
    LET t == th[f][p] IN
    /\ t.pc = "start"
    /\ Cardinality({ q \in DOMAIN th[f] : th[f][q].pc = "run" }) < parallel
    /\ step_counts' = [step_counts EXCEPT ![t.idx] = @ + 1]
    /\ th' = [th EXCEPT ![f][p] = [@ EXCEPT !.pc = "run",
                                            !.started = Append(@, t.idx),
                                            !.received = Append(@, t.prev_output)]]
    /\ UNCHANGED <<genVars, cliVars, utilVars, params, run_dir, supVars, fl, progressVars, outVars, monVars>>

\* with lock: step_counts[idx] += 1
WalkStart(f, p) ==
    LET t == th[f][p] IN
    /\ t.pc = "start"
    /\ step_counts' = [step_counts EXCEPT ![t.idx] = @ + 1]
    /\ th' = [th EXCEPT ![f][p] = [@ EXCEPT !.pc = "run",
                                            !.started = Append(@, t.idx),
                                            !.received = Append(@, t.prev_output)]]
    /\ UNCHANGED <<genVars, cliVars, utilVars, params, run_dir, supVars, fl, progressVars, outVars, monVars>>

\* Variant: the finally clause decrements the counter of the first step.
DecrementFirstStep(counts, idx) == [counts EXCEPT ![0] = @ - 1]

\* finally: with lock: step_counts[idx] -= 1
Decrement(counts, idx) == [counts EXCEPT ![idx] = @ - 1]

\* Variant: the decrement is not in a finally clause and is skipped when the
\* step raises.
StepRaisesNoDecrement(f, p) ==
    LET t == th[f][p] IN
    /\ t.pc = "run"
    /\ ThreadReturns(f, p, <<Result(f, p, "error", t.idx, <<>>)>>, TRUE)
    /\ UNCHANGED <<genVars, cliVars, utilVars, params, run_dir, supVars, step_counts, progressVars, outVars, monVars>>

\* Variant: the handler marks the flow failed and the walk goes on to the next
\* step with an empty output.
StepRaisesGoesOn(f, p) ==
    LET t == th[f][p] IN
    /\ t.pc = "run"
    /\ step_counts' = Decrement(step_counts, t.idx)
    /\ th' = [th EXCEPT ![f][p] = [@ EXCEPT !.pc = "check", !.idx = @ + 1,
                                            !.prev_output = <<>>]]
    /\ fl' = [fl EXCEPT ![f].flow_failed = TRUE]
    /\ UNCHANGED <<genVars, cliVars, utilVars, params, run_dir, supVars, progressVars, outVars, monVars>>

\* The step raised: the except handler quarantines the error, marks the flow
\* failed and returns the single error result; the finally clause runs.
StepRaises(f, p) ==
    LET t == th[f][p] IN
    /\ t.pc = "run"
    /\ step_counts' = Decrement(step_counts, t.idx)
    /\ ThreadReturns(f, p, <<Result(f, p, "error", t.idx, <<>>)>>, TRUE)
    /\ UNCHANGED <<genVars, cliVars, utilVars, params, run_dir, supVars, progressVars, outVars, monVars>>

\* Variant: the recursion passes on the text the step received instead of the
\* step's output.
StepReturnsPassesInput(f, p) ==
    LET t == th[f][p] IN
    /\ t.pc = "run"
    /\ ~array[f][t.idx]
    /\ step_counts' = Decrement(step_counts, t.idx)
    /\ th' = [th EXCEPT ![f][p] =
               [@ EXCEPT !.pc = "check", !.idx = @ + 1,
                         !.outputs = Append(@, StepOutput(f, t.idx, t.prev_output))]]
    /\ UNCHANGED <<genVars, cliVars, utilVars, params, run_dir, supVars, fl, progressVars, outVars, monVars>>

\* A non-array step succeeded: return run_from(idx + 1, output, path, curr_dir).
StepReturns(f, p) ==
    LET t == th[f][p] IN
    /\ t.pc = "run"
    /\ ~array[f][t.idx]
    /\ step_counts' = Decrement(step_counts, t.idx)
    /\ th' = [th EXCEPT ![f][p] =
               [@ EXCEPT !.pc = "check", !.idx = @ + 1,
                         !.prev_output = StepOutput(f, t.idx, t.prev_output),
                         !.outputs = Append(@, StepOutput(f, t.idx, t.prev_output))]]
    /\ UNCHANGED <<genVars, cliVars, utilVars, params, run_dir, supVars, fl, progressVars, outVars, monVars>>

\* Variant: an output that is not a list is taken for the empty list, and
\* the walk returns no result without marking the flow failed.
ArrayParseFailsAsEmpty(f, p) ==
    LET t == th[f][p] IN
    /\ t.pc = "run"
    /\ array[f][t.idx]
    /\ ~IsList(StepOutput(f, t.idx, t.prev_output))
    /\ step_counts' = Decrement(step_counts, t.idx)
    /\ ThreadReturns(f, p, <<>>, FALSE)
    /\ UNCHANGED <<genVars, cliVars, utilVars, params, run_dir, supVars, progressVars, outVars, monVars>>

\* An array step succeeded but its output is not a JSON list.
ArrayParseFails(f, p) ==
    LET t == th[f][p] IN
    /\ t.pc = "run"
    /\ array[f][t.idx]
    /\ ~IsList(StepOutput(f, t.idx, t.prev_output))
    /\ step_counts' = Decrement(step_counts, t.idx)
    /\ ThreadReturns(f, p, <<Result(f, p, "array_error", t.idx, <<>>)>>, TRUE)
    /\ UNCHANGED <<genVars, cliVars, utilVars, params, run_dir, supVars, progressVars, outVars, monVars>>

\* An array step succeeded with a JSON list of n items: one branch worker per
\* item is started on run_from(idx + 1, item, None, curr_dir/branch_k), then
\* the walk waits in the join loop.
ArrayFanOut(f, p, n) ==
    LET t == th[f][p]
        items == Loads(ArrayText(n))
        kids == { Append(p, k) : k \in 0..(Len(items) - 1) }
    IN
    /\ t.pc = "run"
    /\ array[f][t.idx]
    /\ IsList(ArrayText(n))
    /\ step_counts' = Decrement(step_counts, t.idx)
    /\ th' = [th EXCEPT ![f] =
               [q \in DOMAIN th[f] \cup kids |->
                   IF q \in kids
                   THEN NewThread("entry", t.idx + 1, ItemStr(items[q[Len(q)] + 1]))
                   ELSE IF q = p
                   THEN [t EXCEPT !.pc = "join", !.outputs = Append(@, ArrayText(n))]
                   ELSE th[f][q]]]
    /\ UNCHANGED <<genVars, cliVars, utilVars, params, run_dir, supVars, fl, progressVars, outVars, monVars>>

\* Variant: a fan-out that collected no result raises FlowCancelled.
WalkJoinEmptyCancels(f, p) ==
    LET t == th[f][p] IN
    /\ t.pc = "join"
    /\ \A q \in ChildrenOf(f, p) : th[f][q].pc = "done"
    /\ IF t.cancelled \/ t.res = <<>>
       THEN ThreadCancelled(f, p, FALSE)
       ELSE ThreadReturns(f, p, t.res, FALSE)
    /\ UNCHANGED <<genVars, cliVars, utilVars, params, run_dir, supVars, step_counts, progressVars, outVars, monVars>>

\* for t in threads: t.join(); if cancelled: raise FlowCancelled(); return results
WalkJoin(f, p) ==
    LET t == th[f][p] IN
    /\ t.pc = "join"
    /\ \A q \in ChildrenOf(f, p) : th[f][q].pc = "done"
    /\ IF t.cancelled
       THEN ThreadCancelled(f, p, FALSE)
       ELSE ThreadReturns(f, p, t.res, FALSE)
    /\ UNCHANGED <<genVars, cliVars, utilVars, params, run_dir, supVars, step_counts, progressVars, outVars, monVars>>

----------------------------------------------------------------------------
(* The flow worker: orchestrate.worker and record_finished *)

\* Variant: the latch is set one failure before the budget is reached.
BudgetReachedOneEarly(halt, failures, budget) == halt /\ failures >= budget - 1

\* Variant: the budget trips the latch whatever halt_on_max_failures says.
BudgetReachedIgnoringHalt(halt, failures, budget) == failures >= budget

\* `if halt_on_max_failures and failed_flows >= max_flow_failures`
BudgetReached(halt, failures, budget) == halt /\ failures >= budget

\* Variant: the line is written at the start of the file.
RecordFinishedAtStart(f, status) ==
    finished_file' = <<[flow |-> f, line |-> FinishedLine(status, ipaths[f])]>>
                     \o finished_file

\* record_finished(status, interpolated_paths): one line appended under
\* finished_lock.  `flow` records whose line it is.
RecordFinished(f, status) ==
    finished_file' = Append(finished_file,
                            [flow |-> f, line |-> FinishedLine(status, ipaths[f])])

\* Variant: the paths of a failed flow are appended even when empty.
FailedPathsAlways(recorded, failed, paths) ==
    IF failed THEN Append(recorded, paths) ELSE recorded

\* `if flow_failed: ... if interpolated_paths: failed_flow_paths.append(...)`
FailedPathsAfter(recorded, failed, paths) ==
    IF failed /\ Len(paths) > 0 THEN Append(recorded, paths) ELSE recorded

\* Variant: every worker that finds the budget reached prints the message.
TriggerMessageEveryTrip(trip, printed) == trip

\* `if not cancel_message_printed: cancel_message_printed = True; trigger_message = True`
TriggerMessage(trip, printed) == trip /\ ~printed

\* The progress_lock section after _run_flow returned.
WorkerCommit(f) ==
    LET w == fl[f]
        failures == IF w.flow_failed THEN failed_flows + 1 ELSE failed_flows
        trip == w.flow_failed
                /\ BudgetReached(halt_on_max_failures, failures, max_flow_failures)
    IN
    /\ w.pc = "commit"
    /\ results' = results \o w.res
    /\ finished' = finished + 1
    /\ failed_flows' = failures
    /\ failed_flow_paths' = FailedPathsAfter(failed_flow_paths, w.flow_failed, ipaths[f])
    /\ cancel_event' = (cancel_event \/ trip)
    /\ cancel_message_printed' = (cancel_message_printed \/ trip)
    /\ fl' = [fl EXCEPT ![f] = [@ EXCEPT !.pc = "record",
                                         !.bump = finished + 1,
                                         !.trip_at = IF trip /\ ~cancel_event THEN sup_pc ELSE @,
                                         !.trigger = TriggerMessage(trip, cancel_message_printed)]]
    /\ UNCHANGED <<genVars, cliVars, utilVars, params, run_dir, supVars, th, step_counts, outVars, monVars>>

\* The name of the file a result's path points to, None for no path: the
\* result of a walk that ran to the end carries the path of the flow's last
\* step (final_message.txt of a codex step, step_<i>_openai.txt of an openai
\* step, None of a cmd step), the result of a failed walk its error file.
PathName(r) ==
    IF r.kind = "output"
    THEN CASE config[r.flow][r.idx - 1].type = "codex" -> "final_message.txt"
           [] config[r.flow][r.idx - 1].type = "openai" -> "step_openai.txt"
           [] OTHER -> "None"
    ELSE "error_file"

\* Variant: the paths are listed whether the flow failed or not.
SuccessPathsOfAnyFlow(flow_failed, branch_results) ==
    IF list_codex_final_paths /\ final_step_is_codex
    THEN { r \in Range(branch_results) : PathName(r) = "final_message.txt" }
    ELSE {}

\* success_paths: `if list_codex_final_paths and final_step_is_codex and
\* not flow_failed`, the results whose path is named final_message.txt.
SuccessPaths(flow_failed, branch_results) ==
    IF list_codex_final_paths /\ final_step_is_codex /\ ~flow_failed
    THEN { r \in Range(branch_results) : PathName(r) = "final_message.txt" }
    ELSE {}

\* record_finished(status, ...) and the printing of the success paths, then
\* the worker is left with printing the message when it is the one that
\* tripped the latch.
WorkerRecord(f) ==
    LET w == fl[f] IN
    /\ w.pc = "record"
    /\ RecordFinished(f, IF w.flow_failed THEN "failed" ELSE "done")
    /\ printed_paths' = printed_paths \cup SuccessPaths(w.flow_failed, w.res)
    /\ fl' = [fl EXCEPT ![f].pc = IF w.trigger THEN "print" ELSE "dead"]
    /\ UNCHANGED <<genVars, exit_code, utilVars, params, run_dir, supVars, th, step_counts, progressVars,
                   failed_file, msg_count, outcome, monVars>>

\* if trigger_message: print("Maximum flow failures reached")
WorkerPrint(f) ==
    /\ fl[f].pc = "print"
    /\ msg_count' = msg_count + 1
    /\ fl' = [fl EXCEPT ![f].pc = "dead"]
    /\ UNCHANGED <<genVars, cliVars, utilVars, params, run_dir, supVars, th, step_counts, progressVars,
                   finished_file, failed_file, outcome, monVars>>

\* Variant: a cancelled flow is counted as finished but writes no line.
WorkerCancelledNoRecord(f) ==
    /\ fl[f].pc = "c_record"
    /\ fl' = [fl EXCEPT ![f].pc = "c_finish"]
    /\ UNCHANGED <<genVars, cliVars, utilVars, params, run_dir, supVars, th, step_counts, progressVars,
                   outVars, monVars>>

\* except FlowCancelled: record_finished("failed", interpolated_paths)
WorkerCancelledRecord(f) ==
    /\ fl[f].pc = "c_record"
    /\ RecordFinished(f, "failed")
    /\ fl' = [fl EXCEPT ![f].pc = "c_finish"]
    /\ UNCHANGED <<genVars, cliVars, utilVars, params, run_dir, supVars, th, step_counts, progressVars,
                   failed_file, msg_count, outcome, monVars>>

\* except FlowCancelled: with progress_lock: finished += 1; return
WorkerCancelledFinish(f) ==
    /\ fl[f].pc = "c_finish"
    /\ finished' = finished + 1
    /\ fl' = [fl EXCEPT ![f] = [@ EXCEPT !.pc = "dead", !.bump = finished + 1]]
    /\ UNCHANGED <<genVars, cliVars, utilVars, params, run_dir, supVars, th, step_counts, cancel_event, failed_flows,
                   cancel_message_printed, failed_flow_paths, results,
                   outVars, monVars>>

----------------------------------------------------------------------------
(* The supervisor: the body of orchestrate *)

\* `if max_flow_failures < 1: raise ValueError(...)`
BudgetInvalid(budget) == budget < 1

\* Variant: the body also rejects a `parallel` below 1.
SupCallValidatesParallel ==
    /\ sup_pc = "call"
    /\ IF max_flows # <<>>
       THEN outcome' = "type_error" /\ sup_pc' = "rejected"
       ELSE IF BudgetInvalid(max_flow_failures) \/ parallel < 1
       THEN outcome' = "value_error" /\ sup_pc' = "rejected"
       ELSE outcome' = outcome /\ sup_pc' = "setup"
    /\ UNCHANGED <<genVars, cliVars, utilVars, params, run_dir, next_flow, flow_dirs, late_started, fl, th,
                   step_counts, progressVars, finished_file, failed_file,
                   msg_count, monVars>>

\* The call of orchestrate: a keyword that is not a parameter of the function
\* is a TypeError before the body runs; the body begins by validating
\* max_flow_failures.
SupCall ==
    /\ sup_pc = "call"
    /\ IF max_flows # <<>>
       THEN outcome' = "type_error" /\ sup_pc' = "rejected"
       ELSE IF BudgetInvalid(max_flow_failures)
       THEN outcome' = "value_error" /\ sup_pc' = "rejected"
       ELSE outcome' = outcome /\ sup_pc' = "setup"
    /\ UNCHANGED <<genVars, cliVars, utilVars, params, run_dir, next_flow, flow_dirs, late_started, fl, th,
                   step_counts, progressVars, finished_file, failed_file,
                   msg_count, monVars>>

\* finished_file.touch(): the file is created when it is missing; the lines
\* of a file that is already there are left alone.
Touch(lines) == lines

\* The state of the run is initialised, run_dir and finished.txt are created
\* and the monitor thread is started.
SupSetup ==
    /\ sup_pc = "setup"
    /\ run_dir' = TRUE
    /\ finished_file' = Touch(finished_file)
    /\ mon_pc' = "run"
    /\ sup_pc' = "loop"
    /\ UNCHANGED <<genVars, cliVars, utilVars, params, next_flow, flow_dirs, late_started, fl, th, step_counts,
                   progressVars, failed_file, msg_count, outcome, stop_event>>

\* Variant: the scheduling loop polls stop_event instead of cancel_event.
SupSeesStopEvent(latch) == stop_event

\* The supervisor's reads of the latch: `if cancel_event.is_set(): break`
SupSeesLatch(latch) == latch

\* Variant: the for loop does not look at the latch.
SupLoopNoLatchCheck ==
    /\ sup_pc = "loop"
    /\ sup_pc' = IF next_flow > total THEN "join" ELSE "mkdir"
    /\ UNCHANGED <<genVars, cliVars, utilVars, params, run_dir, next_flow, flow_dirs, late_started, fl, th, step_counts,
                   progressVars, outVars, monVars>>

\* `for flow_conf in flow_configs: if cancel_event.is_set(): break`
SupLoop ==
    /\ sup_pc = "loop"
    /\ sup_pc' = IF next_flow > total \/ SupSeesLatch(cancel_event)
                 THEN "join" ELSE "mkdir"
    /\ UNCHANGED <<genVars, cliVars, utilVars, params, run_dir, next_flow, flow_dirs, late_started, fl, th, step_counts,
                   progressVars, outVars, monVars>>

\* flow_dir = Path(tempfile.mkdtemp(prefix="flow_", dir=run_dir))
SupMkdir ==
    /\ sup_pc = "mkdir"
    /\ flow_dirs' = flow_dirs \cup {next_flow}
    /\ sup_pc' = "wait"
    /\ UNCHANGED <<genVars, cliVars, utilVars, params, run_dir, next_flow, late_started, fl, th, step_counts,
                   progressVars, outVars, monVars>>

\* `while True: if cancel_event.is_set(): break`; the break falls through the
\* second check after the while loop, which sees the same latch set.
SupWaitCheck ==
    /\ sup_pc = "wait"
    /\ sup_pc' = IF SupSeesLatch(cancel_event) THEN "join" ELSE "slot"
    /\ UNCHANGED <<genVars, cliVars, utilVars, params, run_dir, next_flow, flow_dirs, late_started, fl, th, step_counts,
                   progressVars, outVars, monVars>>

\* Variant: `if active <= parallel`
HasFreeSlotInclusive(active, cap) == active <= cap

\* Variant: `if active < parallel - 1`
HasFreeSlotBelowCap(active, cap) == active < cap - 1

\* `if active < parallel`
HasFreeSlot(active, cap) == active < cap

\* Count the live workers; launch the flow's worker when there is a slot, or
\* sleep 100 ms and poll again.  After a launch the check after the while loop
\* and the check at the top of the for loop read the latch one after the other
\* with nothing in between: the latter is SupLoop.
SupSlot ==
    /\ sup_pc = "slot"
    /\ IF HasFreeSlot(ActiveWorkers, parallel)
       THEN /\ fl' = [fl EXCEPT ![next_flow].pc = "run"]
            /\ th' = [th EXCEPT ![next_flow] = (<<>> :> NewThread("check", 0, <<>>))]
            /\ late_started' = IF cancel_event THEN late_started \cup {next_flow}
                                ELSE late_started
            /\ next_flow' = next_flow + 1
            /\ sup_pc' = "loop"
       ELSE /\ sup_pc' = "wait"
            /\ UNCHANGED <<fl, th, next_flow, late_started>>
    /\ UNCHANGED <<genVars, cliVars, utilVars, params, run_dir, flow_dirs, step_counts, progressVars, outVars, monVars>>

\* Variant: only the first flow worker is joined.
SupJoinsFirstOnly ==
    /\ sup_pc = "join"
    /\ fl[1].pc \in {"none", "dead"}
    /\ sup_pc' = "stop"
    /\ UNCHANGED <<genVars, cliVars, utilVars, params, run_dir, next_flow, flow_dirs, late_started, fl, th, step_counts,
                   progressVars, outVars, monVars>>

\* for t in threads: t.join()
SupJoin ==
    /\ sup_pc = "join"
    /\ \A f \in Flows : fl[f].pc \in {"none", "dead"}
    /\ sup_pc' = "stop"
    /\ UNCHANGED <<genVars, cliVars, utilVars, params, run_dir, next_flow, flow_dirs, late_started, fl, th, step_counts,
                   progressVars, outVars, monVars>>

\* stop_event.set()
SupStopMonitor ==
    /\ sup_pc = "stop"
    /\ stop_event' = TRUE
    /\ sup_pc' = "monitor_join"
    /\ UNCHANGED <<genVars, cliVars, utilVars, params, run_dir, next_flow, flow_dirs, late_started, fl, th, step_counts,
                   progressVars, outVars, mon_pc>>

\* monitor: the loop ends once stop_event is set; the final line is printed.
MonitorStops ==
    /\ mon_pc = "run"
    /\ stop_event
    /\ mon_pc' = "done"
    /\ UNCHANGED <<genVars, cliVars, utilVars, params, run_dir, supVars, fl, th, step_counts, progressVars,
                   outVars, stop_event>>

\* monitor_thread.join()
SupJoinMonitor ==
    /\ sup_pc = "monitor_join"
    /\ mon_pc = "done"
    /\ sup_pc' = "failed_files"
    /\ UNCHANGED <<genVars, cliVars, utilVars, params, run_dir, next_flow, flow_dirs, late_started, fl, th, step_counts,
                   progressVars, outVars, monVars>>

\* if failed_flows: write one comma-joined line per entry of failed_flow_paths
SupFailedFiles ==
    /\ sup_pc = "failed_files"
    /\ failed_file' = IF failed_flows > 0
                      THEN <<"lines", [i \in 1..Len(failed_flow_paths) |->
                                          Join(",", failed_flow_paths[i])]>>
                      ELSE failed_file
    /\ sup_pc' = "final"
    /\ UNCHANGED <<genVars, cliVars, utilVars, params, run_dir, next_flow, flow_dirs, late_started, fl, th, step_counts,
                   progressVars, finished_file, msg_count, outcome, monVars>>

\* Variant: the final test uses `failed_flows > max_flow_failures`.
MustRaiseOverBudget(halt, latch, failures, budget) == halt /\ latch /\ failures > budget

\* `if halt_on_max_failures and cancel_event.is_set() and failed_flows >= max_flow_failures`
MustRaise(halt, latch, failures, budget) == halt /\ latch /\ failures >= budget

\* The last statements: raise MaxFlowFailuresExceeded or return results.
SupFinal ==
    /\ sup_pc = "final"
    /\ IF MustRaise(halt_on_max_failures, cancel_event, failed_flows, max_flow_failures)
       THEN /\ msg_count' = IF cancel_message_printed THEN msg_count ELSE msg_count + 1
            /\ outcome' = "raised"
       ELSE /\ outcome' = "returned"
            /\ UNCHANGED msg_count
    /\ sup_pc' = "exit"
    /\ UNCHANGED <<genVars, cliVars, utilVars, params, run_dir, next_flow, flow_dirs, late_started, fl, th, step_counts,
                   progressVars, finished_file, failed_file, monVars>>

----------------------------------------------------------------------------
(* The command-line program: the `__main__` block *)

\* Variant: the handler of MaxFlowFailuresExceeded passes instead of exiting.
ExitStatusHandlerPasses(how) ==
    CASE how \in {"raised", "returned"} -> 0
      [] OTHER -> 1

\* The exit status of the process: sys.exit(1) in the handler of
\* MaxFlowFailuresExceeded, 0 when the script runs to its end, and 1 again,
\* the interpreter's status for an uncaught exception, when orchestrate
\* raises anything else.
ExitStatus(how) ==
    CASE how = "raised" -> 1
      [] how = "returned" -> 0
      [] OTHER -> 1

\* The program ends after its call of orchestrate, which passes
\* halt_on_max_failures = not args.ignore_max_failures and no max_flows.
CliExit ==
    /\ sup_pc \in {"exit", "rejected"}
    /\ max_flows = <<>>
    /\ exit_code = <<>>
    /\ exit_code' = <<ExitStatus(outcome)>>
    /\ UNCHANGED <<runVars, genVars, utilVars, printed_paths>>

----------------------------------------------------------------------------
(* The flow expansion: _generate_flow_configs *)

\* Bounds of the expansion's inputs
MaxKeys == 2
MaxLines == 2

\* Here a text is a sequence of tokens <<tag, string>>: a literal, a
\* placeholder {{{key}}}, a newline, or a path written out.
Keys == <<"a", "b", "c", "d">>
SourcePaths == {"p", "q"}
BlankLine == ""

\* Path(p).read_text(): the file p ends with a newline, the file q does not.
ReadText(path) ==
    IF path = "p" THEN << <<"lit", "P">>, <<"newline", "">> >>
    ELSE << <<"lit", "Q">> >>

\* text.rstrip("\n")
RECURSIVE RStripNewlines(_)
RStripNewlines(text) ==
    IF Len(text) > 0 /\ text[Len(text)][1] = "newline"
    THEN RStripNewlines(SubSeq(text, 1, Len(text) - 1))
    ELSE text

\* paths = [line.strip() for line in f.readlines() if line.strip()]
ManifestPaths(lines) == SelectSeq(lines, LAMBDA line : line # BlankLine)

\* The (path, text) entry of a manifest line.
Entry(path, append) ==
    [path |-> path,
     text |-> IF append
              THEN RStripNewlines(ReadText(path)) \o << <<"newline", "">>, <<"path", path>> >>
              ELSE ReadText(path)]

\* str.replace(placeholder, value) for the placeholder of `key`.
RECURSIVE Replace(_, _, _)
Replace(text, key, value) ==
    IF Len(text) = 0 THEN <<>>
    ELSE (IF Head(text) = <<"placeholder", key>> THEN value ELSE <<Head(text)>>)
         \o Replace(Tail(text), key, value)

\* for key, value in mapping.items(): text = text.replace(placeholder, value)
RECURSIVE Substitute(_, _)
Substitute(text, mapping) ==
    IF Len(mapping) = 0 THEN text
    ELSE Substitute(Replace(text, Head(mapping).key, Head(mapping).value), Tail(mapping))

\* The copy of a step made for one combination: prompt and cmd substituted,
\* every other key (stdin_file among them) as in the base step.
NewStep(step, mapping) ==
    [step EXCEPT !.prompt = Substitute(@, mapping), !.cmd = Substitute(@, mapping)]

\* FlowConfig(steps, interpolated_paths)
FlowConfig(steps, paths) == [steps |-> steps, interpolated_paths |-> paths]

\* Variant: the last axis varies slowest.
RECURSIVE ProductLastSlowest(_)
ProductLastSlowest(axes) ==
    IF Len(axes) = 0 THEN << <<>> >>
    ELSE LET last == axes[Len(axes)]
             rest == ProductLastSlowest(SubSeq(axes, 1, Len(axes) - 1))
         IN [n \in 1..(Len(last) * Len(rest)) |->
                rest[((n - 1) % Len(rest)) + 1] \o <<last[((n - 1) \div Len(rest)) + 1]>>]

\* Variant: the axes are paired up line by line, as zip(*axes) does.
ProductPairsUp(axes) ==
    IF Len(axes) = 0 THEN << <<>> >>
    ELSE LET shortest == CHOOSE m \in { Len(axes[k]) : k \in 1..Len(axes) } :
                            \A k \in 1..Len(axes) : m <= Len(axes[k])
         IN [n \in 1..shortest |-> [k \in 1..Len(axes) |-> axes[k][n]]]

\* itertools.product(*axes): the first axis varies slowest.
RECURSIVE Product(_)
Product(axes) ==
    IF Len(axes) = 0 THEN << <<>> >>
    ELSE LET first == Head(axes)
             rest == Product(Tail(axes))
         IN [n \in 1..(Len(first) * Len(rest)) |->
                <<first[((n - 1) \div Len(rest)) + 1]>> \o rest[((n - 1) % Len(rest)) + 1]]

\* `if not key_files: return [FlowConfig(...)]`, else the manifests are read
\* and every listed file loaded.
GenLoad ==
    /\ gen_pc = "call"
    /\ IF Len(key_files) = 0
       THEN /\ flow_configs' = <<FlowConfig(base_config, <<>>)>>
            /\ gen_pc' = "done"
            /\ UNCHANGED loaded
       ELSE /\ loaded' = [k \in 1..Len(key_files) |->
                            LET paths == ManifestPaths(key_files[k].lines) IN
                            [i \in 1..Len(paths) |-> Entry(paths[i], append_filepath)]]
            /\ gen_pc' = "expand"
            /\ UNCHANGED flow_configs
    /\ UNCHANGED <<runVars, cliVars, utilVars, base_config, key_files, append_filepath>>

\* The loop over the product: one FlowConfig per combination.
GenExpand ==
    /\ gen_pc = "expand"
    /\ flow_configs' =
          LET combos == Product(loaded) IN
          [n \in 1..Len(combos) |->
              LET combo == combos[n]
                  mapping == [k \in 1..Len(combo) |->
                                 [key |-> key_files[k].key, value |-> combo[k].text]]
                  combo_paths == [k \in 1..Len(combo) |-> combo[k].path]
              IN FlowConfig([i \in 1..Len(base_config) |-> NewStep(base_config[i], mapping)],
                            combo_paths)]
    /\ gen_pc' = "done"
    /\ UNCHANGED <<runVars, cliVars, utilVars, base_config, key_files, append_filepath, loaded>>

\* The base configurations explored: a step whose prompt and cmd hold the
\* placeholders, alone (with and without append_filepath, under up to
\* MaxKeys keys) or before a step whose stdin_file names a manifest, and the
\* empty configuration (these under at most one key).
Manifests == UNION { [1..n -> SourcePaths \cup {BlankLine}] : n \in 0..MaxLines }

PromptStep ==
    [prompt |-> << <<"lit", "ask">>, <<"placeholder", "a">>, <<"placeholder", "b">> >>,
     cmd |-> << <<"placeholder", "b">>, <<"lit", "run">> >>,
     stdin_file |-> <<>>]

StdinStep(lines) ==
    [prompt |-> <<>>, cmd |-> << <<"lit", "cat">> >>, stdin_file |-> <<"manifest", lines>>]

BaseConfigs ==
    {<<>>, <<PromptStep>>}
    \cup { <<PromptStep, StdinStep(m)>> : m \in {<<"p">>, <<"q", "p">>} }

KeyFilesInputs ==
    UNION { [1..n -> Manifests] : n \in 0..MaxKeys }

GenInit ==
    /\ RunInit
    /\ total = NumFlows /\ parallel = 1 /\ max_flow_failures = 1
    /\ halt_on_max_failures /\ ipaths = NoPaths /\ max_flows = <<>>
    /\ list_codex_final_paths /\ final_step_is_codex
    /\ \E b \in BaseConfigs :
          /\ base_config = b
          /\ append_filepath \in (IF b = <<PromptStep>> THEN BOOLEAN ELSE {FALSE})
    /\ \E ms \in KeyFilesInputs :
          /\ base_config \in {<<PromptStep>>} \/ Len(ms) <= 1
          /\ key_files = [k \in 1..Len(ms) |-> [key |-> Keys[k], lines |-> ms[k]]]
    /\ loaded = <<>>
    /\ flow_configs = <<>>
    /\ gen_pc = "call"
    /\ UtilIdle

GenNext == GenLoad \/ GenExpand

GenSpec == GenInit /\ [][GenNext]_vars

----------------------------------------------------------------------------
(* openai_utils: call_openai_api and run_codex_cli *)

\* Bound of the max_retries explored.
MaxRetries == 3

\* NETWORK_EXCEPTIONS
NetworkExceptions ==
    {"RequestException", "APIConnectionError", "APITimeoutError", "APIStatusError"}

\* What client.responses.create(...) followed by response.model_dump() can
\* do: hand back a response, or raise an exception of a network class or of
\* another class.
CreateOutcomes ==
    {<<"response">>} \cup { <<"network", e>> : e \in NetworkExceptions }
    \cup {<<"other", "ValueError">>}

\* Variant: the last attempt is taken to be the one numbered max_retries.
IsLastAttemptOffByOne(attempt, max_retries) == attempt = max_retries

\* `if attempt == max_retries - 1`
IsLastAttempt(attempt, max_retries) == attempt = max_retries - 1

\* The call: `if client is None: raise ModuleNotFoundError(...)`, else the
\* loop begins.
ApiCall ==
    /\ api.pc = "call"
    /\ api' = IF api.client
              THEN [api EXCEPT !.pc = "loop"]
              ELSE [api EXCEPT !.pc = "done",
                               !.result = <<"raised", <<"other", "ModuleNotFoundError">>>>]
    /\ UNCHANGED <<runVars, genVars, cliVars, cx, lk>>

\* `for attempt in range(max_retries)`: the next attempt, or the end of the
\* loop, after which the function returns None.
ApiLoop ==
    /\ api.pc = "loop"
    /\ api' = IF api.attempt < api.max_retries
              THEN [api EXCEPT !.pc = "try"]
              ELSE [api EXCEPT !.pc = "done", !.result = <<"returned", <<"None">>>>]
    /\ UNCHANGED <<runVars, genVars, cliVars, cx, lk>>

\* The body of the loop: the request is made; a response is returned, a
\* network error is re-raised on the last attempt and slept on otherwise,
\* any other exception is raised.
ApiCreate(reply) ==
    /\ api.pc = "try"
    /\ api' =
         LET made == [api EXCEPT !.calls = Append(@, reply)] IN
         CASE reply[1] = "response" ->
                  [made EXCEPT !.pc = "done",
                               !.result = <<"returned", <<"response", Len(made.calls)>>>>]
           [] reply[1] = "network" ->
                  IF IsLastAttempt(api.attempt, api.max_retries)
                  THEN [made EXCEPT !.pc = "done", !.result = <<"raised", reply>>]
                  ELSE [made EXCEPT !.pc = "sleep"]
           [] OTHER ->
                  [made EXCEPT !.pc = "done", !.result = <<"raised", reply>>]
    /\ UNCHANGED <<runVars, genVars, cliVars, cx, lk>>

\* time.sleep(1), then the loop goes on.
ApiSleep ==
    /\ api.pc = "sleep"
    /\ api' = [api EXCEPT !.pc = "loop", !.attempt = @ + 1]
    /\ UNCHANGED <<runVars, genVars, cliVars, cx, lk>>

\* The calls of call_openai_api explored: max_retries from 0 up, with and
\* without the openai package.
ApiInit ==
    /\ RunInit
    /\ total = NumFlows /\ parallel = 1 /\ max_flow_failures = 1
    /\ halt_on_max_failures /\ ipaths = NoPaths /\ max_flows = <<>>
    /\ list_codex_final_paths /\ final_step_is_codex
    /\ base_config = <<>> /\ key_files = <<>> /\ append_filepath = FALSE
    /\ loaded = <<>> /\ flow_configs = <<>> /\ gen_pc = "idle"
    /\ \E n \in 0..MaxRetries, c \in BOOLEAN :
          api = [pc |-> "call", max_retries |-> n, client |-> c, attempt |-> 0,
                 calls |-> <<>>, result |-> <<"none">>]
    /\ cx = [pc |-> "idle"]
    /\ lk = [pc |-> "idle"]

ApiNext ==
    \/ ApiCall
    \/ ApiLoop
    \/ \E reply \in CreateOutcomes : ApiCreate(reply)
    \/ ApiSleep

ApiSpec == ApiInit /\ [][ApiNext]_vars

\* What proc.wait(timeout=timeout) can end with: the timeout (when one was
\* given), or the exit of the process with a return code, the text it wrote
\* to stderr, and the final message file written or not.
WaitOutcomes(timed) ==
    (IF timed THEN {<<"timeout">>} ELSE {})
    \cup { <<"exit", rc, err, final>> :
              rc \in {0, 1}, err \in {<<>>, <<"boom">>}, final \in BOOLEAN }

\* str(proc.returncode)
Str(rc) == <<"digits", rc>>

\* Variant: the message is the return code, whatever stderr holds.
FailureMessageReturnCode(rc, err) == <<Str(rc)>>

\* msg = "".join(stderr_lines) or str(proc.returncode), which the handler
\* of CalledProcessError passes on: `msg = e.stderr or str(e)`.
FailureMessage(rc, err) == IF err # <<>> THEN err ELSE <<Str(rc)>>

\* `if attempt == max_retries - 1` of run_codex_cli
CodexLastAttempt(attempt, max_retries) == attempt = max_retries - 1

\* The process of the attempt under way.
CurrentProc == cx.procs[Len(cx.procs)]

\* `for attempt in range(max_retries)`: the next attempt begins with
\* tempfile.mkdtemp(prefix="codex_exec_", dir=output_dir); after the loop
\* the function returns None.
CxLoop ==
    /\ cx.pc = "loop"
    /\ cx' = IF cx.attempt < cx.max_retries
             THEN [cx EXCEPT !.pc = "popen", !.dirs = @ + 1]
             ELSE [cx EXCEPT !.pc = "done", !.result = <<"returned", <<"None">>>>]
    /\ UNCHANGED <<runVars, genVars, cliVars, api, lk>>

\* subprocess.Popen([...]) and the start of the two reader threads; Popen
\* failing (no codex executable) is raised at once.
CxPopen(started) ==
    /\ cx.pc = "popen"
    /\ cx' = IF started
             THEN [cx EXCEPT !.pc = "wait",
                             !.procs = Append(@, [dir |-> cx.dirs, killed |-> FALSE,
                                                  joined |-> {}, how |-> <<"running">>])]
             ELSE [cx EXCEPT !.pc = "done", !.result = <<"raised", <<"OSError">>>>]
    /\ UNCHANGED <<runVars, genVars, cliVars, api, lk>>

\* proc.wait(timeout=timeout)
CxWait(how) ==
    /\ cx.pc = "wait"
    /\ cx' = [cx EXCEPT !.pc = IF how[1] = "timeout" THEN "kill" ELSE "join",
                        !.procs[Len(cx.procs)].how = how]
    /\ UNCHANGED <<runVars, genVars, cliVars, api, lk>>

\* except subprocess.TimeoutExpired: proc.kill(); t_out.join(); t_err.join();
\* raise on the last attempt, else sleep and continue.
CxKill ==
    /\ cx.pc = "kill"
    /\ cx' = LET ended == [cx EXCEPT !.procs[Len(cx.procs)].killed = TRUE,
                                     !.procs[Len(cx.procs)].joined = {"t_out", "t_err"}]
             IN IF CodexLastAttempt(cx.attempt, cx.max_retries)
                THEN [ended EXCEPT !.pc = "done", !.result = <<"raised", <<"TimeoutExpired">>>>]
                ELSE [ended EXCEPT !.pc = "sleep"]
    /\ UNCHANGED <<runVars, genVars, cliVars, api, lk>>

\* time.sleep(1); continue
CxSleep ==
    /\ cx.pc = "sleep"
    /\ cx' = [cx EXCEPT !.pc = "loop", !.attempt = @ + 1]
    /\ UNCHANGED <<runVars, genVars, cliVars, api, lk>>

\* The process exited: both readers are joined; a non-zero return code is
\* raised as Exception(msg), otherwise the final message (the file, or the
\* captured stdout written to it) is returned with its path.
CxJoin ==
    /\ cx.pc = "join"
    /\ cx' = LET proc == CurrentProc
                 ended == [cx EXCEPT !.procs[Len(cx.procs)].joined = {"t_out", "t_err"}]
             IN IF proc.how[2] # 0
                THEN [ended EXCEPT !.pc = "done",
                         !.result = <<"raised", <<"Exception", FailureMessage(proc.how[2], proc.how[3])>>>>]
                ELSE [ended EXCEPT !.pc = "done",
                         !.result = <<"returned",
                                      <<IF proc.how[4] THEN "final_message" ELSE "stdout",
                                        proc.dir>>>>]
    /\ UNCHANGED <<runVars, genVars, cliVars, api, lk>>

\* The calls of run_codex_cli explored: max_retries from 0 up, with and
\* without a timeout.
CxInit ==
    /\ RunInit
    /\ total = NumFlows /\ parallel = 1 /\ max_flow_failures = 1
    /\ halt_on_max_failures /\ ipaths = NoPaths /\ max_flows = <<>>
    /\ list_codex_final_paths /\ final_step_is_codex
    /\ base_config = <<>> /\ key_files = <<>> /\ append_filepath = FALSE
    /\ loaded = <<>> /\ flow_configs = <<>> /\ gen_pc = "idle"
    /\ api = [pc |-> "idle"]
    /\ lk = [pc |-> "idle"]
    /\ \E n \in 0..MaxRetries, t \in BOOLEAN :
          cx = [pc |-> "loop", max_retries |-> n, timeout |-> t, attempt |-> 0,
                dirs |-> 0, procs |-> <<>>, result |-> <<"none">>]

CxNext ==
    \/ CxLoop
    \/ \E started \in BOOLEAN : CxPopen(started)
    \/ \E how \in WaitOutcomes(cx.timeout) : CxWait(how)
    \/ CxKill
    \/ CxSleep
    \/ CxJoin

CxSpec == CxInit /\ [][CxNext]_vars

----------------------------------------------------------------------------
(* The locks of a run: step_lock, progress_lock, finished_lock and the      *)
(* res_lock of a fan-out, followed statement by statement.  A thread is the *)
(* list of the statements it still has to run: a lock's `with` block is an  *)
(* acquire and a release around its body, a join waits for threads, and the *)
(* statements that read the latch or a counter choose what comes next.      *)
(* The run followed has two flows: flow worker w1 runs an array step that   *)
(* fans out to the branch workers b1 and b2, flow worker w2 runs one step.  *)

Locks == {"step_lock", "progress_lock", "finished_lock", "res_lock"}
FlowWorkers == {"w1", "w2"}
BranchWorkers == {"b1", "b2"}
LkThreads == {"sup", "mon"} \cup FlowWorkers \cup BranchWorkers

\* with lock: body
With(lock, body) == << <<"acquire", lock>> >> \o body \o << <<"release", lock>> >>

\* run_from for one step: the cancellation check, the increment under the
\* step lock, the step itself, the decrement in the finally clause.
RunFromStep ==
    << <<"check_cancel">> >> \o With("step_lock", <<>>) \o << <<"execute">> >>
    \o With("step_lock", <<>>)

\* run_from past the last step: the cancellation check, then the return.
RunFromEnd == << <<"check_cancel">> >>

\* Variant: record_finished is called inside the progress_lock block.
WorkerTailRecordsInside ==
    With("progress_lock", << <<"commit">> >> \o With("finished_lock", <<>>))

\* worker after _run_flow returned: the progress_lock block, then
\* record_finished with its finished_lock block.
WorkerTail == With("progress_lock", << <<"commit">> >>) \o With("finished_lock", <<>>)

\* worker's handler of FlowCancelled: record_finished, then finished += 1
\* under progress_lock.
WorkerCancelledTail == With("finished_lock", <<>>) \o With("progress_lock", <<>>)

\* The flow worker of a flow whose one step is an array step: the threads of
\* the branches are started, then joined, then `if cancelled: raise`.
FanOutWorker ==
    RunFromStep
    \o << <<"start", BranchWorkers>>, <<"join", BranchWorkers>>, <<"raise_if_cancelled">> >>
    \o WorkerTail

\* The flow worker of a flow of one plain step.
LinearWorker == RunFromStep \o RunFromEnd \o WorkerTail

\* A branch worker: its own latch check, run_from on the next step, and the
\* results extended under res_lock.
BranchWorker ==
    << <<"check_cancel">> >> \o RunFromStep \o RunFromEnd \o With("res_lock", <<>>)

\* One pass of the monitor: the counters read under step_lock, then the
\* progress read under progress_lock.
MonitorPass == With("step_lock", <<>>) \o With("progress_lock", <<>>)

\* The supervisor's wait loop for a flow: the latch check, the count of live
\* workers under progress_lock, then the launch or another round.
SlotPoll(w) ==
    << <<"latch_check">> >> \o With("progress_lock", << <<"count">> >>)
    \o << <<"launch", w>> >>

\* After the scheduling loop: the workers are joined, the monitor is stopped
\* and joined.
SupEnd == << <<"join", FlowWorkers>>, <<"set_stop">>, <<"join", {"mon"}>> >>

\* The supervisor from the start of the monitor on.
Supervisor ==
    << <<"start", {"mon"}>> >>
    \o << <<"latch_check">> >> \o SlotPoll("w1")
    \o << <<"latch_check">> >> \o SlotPoll("w2")
    \o SupEnd

ProgramOf(t) ==
    CASE t = "sup" -> Supervisor
      [] t = "mon" -> << <<"while_not_stopped">> >>
      [] t = "w1" -> FanOutWorker
      [] t = "w2" -> LinearWorker
      [] OTHER -> BranchWorker

LkAlive(t) == lk.th[t].started /\ lk.th[t].prog # <<>>
NextStatement(t) == Head(lk.th[t].prog)
At(t, kind) == LkAlive(t) /\ NextStatement(t)[1] = kind

\* The thread goes on to its next statement.
Advance(t) == [lk EXCEPT !.th[t].prog = Tail(@)]

LkLeavesRest == UNCHANGED <<runVars, genVars, cliVars, api, cx>>

\* lock.__enter__(): the lock is taken when it is free.
LkAcquire(t) ==
    /\ At(t, "acquire")
    /\ lk.owner[NextStatement(t)[2]] = "free"
    /\ lk' = [Advance(t) EXCEPT !.owner[NextStatement(t)[2]] = t]
    /\ LkLeavesRest

\* lock.__exit__()
LkRelease(t) ==
    /\ At(t, "release")
    /\ lk' = [Advance(t) EXCEPT !.owner[NextStatement(t)[2]] = "free"]
    /\ LkLeavesRest

\* The step runs (and returns or raises).
LkExecute(t) ==
    /\ At(t, "execute")
    /\ lk' = Advance(t)
    /\ LkLeavesRest

\* `if cancel_event and cancel_event.is_set()`: a flow worker's walk raises
\* FlowCancelled into the worker's handler; a branch worker sets `cancelled`
\* and returns.
LkCheckCancel(t) ==
    /\ At(t, "check_cancel")
    /\ lk' = IF ~lk.latch THEN Advance(t)
             ELSE IF t \in FlowWorkers
             THEN [lk EXCEPT !.th[t].prog = WorkerCancelledTail]
             ELSE [lk EXCEPT !.th[t].prog = <<>>, !.cancelled = TRUE]
    /\ LkLeavesRest

\* t.start() for each thread of the statement.
LkStart(t) ==
    /\ At(t, "start")
    /\ lk' = [Advance(t) EXCEPT
                 !.th = [u \in LkThreads |->
                            IF u \in NextStatement(t)[2]
                            THEN [started |-> TRUE, prog |-> ProgramOf(u)]
                            ELSE Advance(t).th[u]]]
    /\ LkLeavesRest

\* for t in threads: t.join(): waits until none of the threads is alive (a
\* worker that was never started is not in the list).
LkJoin(t) ==
    /\ At(t, "join")
    /\ \A u \in NextStatement(t)[2] : ~LkAlive(u)
    /\ lk' = Advance(t)
    /\ LkLeavesRest

\* `if cancelled: raise FlowCancelled()` after the join loop of a fan-out.
LkRaiseIfCancelled(t) ==
    /\ At(t, "raise_if_cancelled")
    /\ lk' = IF lk.cancelled THEN [lk EXCEPT !.th[t].prog = WorkerCancelledTail]
             ELSE Advance(t)
    /\ LkLeavesRest

\* The body of the worker's progress_lock block: cancel_event.set() when the
\* flow failed and the budget is reached (`trip`).
LkCommit(t, trip) ==
    /\ At(t, "commit")
    /\ lk' = [Advance(t) EXCEPT !.latch = @ \/ trip]
    /\ LkLeavesRest

\* active = len([t for t in threads if t.is_alive()])
LkCount(t) ==
    /\ At(t, "count")
    /\ lk' = [Advance(t) EXCEPT !.active = Cardinality({ w \in FlowWorkers : LkAlive(w) })]
    /\ LkLeavesRest

\* `if active < parallel`: the worker is started, else time.sleep(0.1) and
\* the wait loop goes round again.
LkLaunch(t) ==
    /\ At(t, "launch")
    /\ lk' = LET w == NextStatement(t)[2] IN
             IF HasFreeSlot(lk.active, lk.parallel)
             THEN [Advance(t) EXCEPT !.th[w] = [started |-> TRUE, prog |-> ProgramOf(w)]]
             ELSE [lk EXCEPT !.th[t].prog = SlotPoll(w) \o Tail(@)]
    /\ LkLeavesRest

\* `if cancel_event.is_set(): break` of the supervisor.
LkLatchCheck(t) ==
    /\ At(t, "latch_check")
    /\ lk' = IF lk.latch THEN [lk EXCEPT !.th[t].prog = SupEnd] ELSE Advance(t)
    /\ LkLeavesRest

\* stop_event.set()
LkSetStop(t) ==
    /\ At(t, "set_stop")
    /\ lk' = [Advance(t) EXCEPT !.stop = TRUE]
    /\ LkLeavesRest

\* `while not stop_event.is_set()`: another pass and round, or the last pass.
LkMonitorLoop(t) ==
    /\ At(t, "while_not_stopped")
    /\ lk' = [lk EXCEPT !.th[t].prog =
                 IF lk.stop THEN MonitorPass
                 ELSE MonitorPass \o << <<"while_not_stopped">> >>]
    /\ LkLeavesRest

\* The run followed begins with the supervisor about to start the monitor.
LockInit ==
    /\ RunInit
    /\ total = NumFlows /\ parallel = 1 /\ max_flow_failures = 1
    /\ halt_on_max_failures /\ ipaths = NoPaths /\ max_flows = <<>>
    /\ list_codex_final_paths /\ final_step_is_codex
    /\ base_config = <<>> /\ key_files = <<>> /\ append_filepath = FALSE
    /\ loaded = <<>> /\ flow_configs = <<>> /\ gen_pc = "idle"
    /\ api = [pc |-> "idle"]
    /\ cx = [pc |-> "idle"]
    /\ \E n \in 1..MaxParallel :
          lk = [th |-> [t \in LkThreads |-> [started |-> t = "sup", prog |-> ProgramOf(t)]],
                owner |-> [l \in Locks |-> "free"],
                latch |-> FALSE, stop |-> FALSE, cancelled |-> FALSE,
                active |-> 0, parallel |-> n]

LockNext ==
    \/ \E t \in LkThreads : LkAcquire(t)
    \/ \E t \in LkThreads : LkRelease(t)
    \/ \E t \in LkThreads : LkExecute(t)
    \/ \E t \in LkThreads : LkCheckCancel(t)
    \/ \E t \in LkThreads : LkStart(t)
    \/ \E t \in LkThreads : LkJoin(t)
    \/ \E t \in LkThreads : LkRaiseIfCancelled(t)
    \/ \E t \in LkThreads, trip \in BOOLEAN : LkCommit(t, trip)
    \/ \E t \in LkThreads : LkCount(t)
    \/ \E t \in LkThreads : LkLaunch(t)
    \/ \E t \in LkThreads : LkLatchCheck(t)
    \/ \E t \in LkThreads : LkSetStop(t)
    \/ \E t \in LkThreads : LkMonitorLoop(t)

LockSpec == LockInit /\ [][LockNext]_vars

----------------------------------------------------------------------------

Next ==
    \/ \E f \in Flows, p \in Dirs : p \in DOMAIN th[f] /\ BranchWorkerEntry(f, p)
    \/ \E f \in Flows, p \in Dirs : p \in DOMAIN th[f] /\ WalkCheck(f, p)
    \/ \E f \in Flows, p \in Dirs : p \in DOMAIN th[f] /\ WalkStart(f, p)
    \/ \E f \in Flows, p \in Dirs : p \in DOMAIN th[f] /\ StepRaises(f, p)
    \/ \E f \in Flows, p \in Dirs : p \in DOMAIN th[f] /\ StepReturns(f, p)
    \/ \E f \in Flows, p \in Dirs : p \in DOMAIN th[f] /\ ArrayParseFails(f, p)
    \/ \E f \in Flows, p \in Dirs, n \in 0..MaxItems :
          p \in DOMAIN th[f] /\ ArrayFanOut(f, p, n)
    \/ \E f \in Flows, p \in Dirs : p \in DOMAIN th[f] /\ WalkJoin(f, p)
    \/ \E f \in Flows : WorkerCommit(f)
    \/ \E f \in Flows : WorkerRecord(f)
    \/ \E f \in Flows : WorkerPrint(f)
    \/ \E f \in Flows : WorkerCancelledRecord(f)
    \/ \E f \in Flows : WorkerCancelledFinish(f)
    \/ SupCall
    \/ SupSetup
    \/ SupLoop
    \/ SupMkdir
    \/ SupWaitCheck
    \/ SupSlot
    \/ SupJoin
    \/ SupStopMonitor
    \/ MonitorStops
    \/ SupJoinMonitor
    \/ SupFailedFiles
    \/ SupFinal
    \/ CliExit

Spec == Init /\ [][Next]_vars

\* What one thread can do next: a walk of the flow engine, a flow worker
\* after _run_flow, the supervisor.
WalkStep(f, p) ==
    /\ p \in DOMAIN th[f]
    /\ \/ BranchWorkerEntry(f, p)
       \/ WalkCheck(f, p)
       \/ WalkStart(f, p)
       \/ StepRaises(f, p)
       \/ StepReturns(f, p)
       \/ ArrayParseFails(f, p)
       \/ \E n \in 0..MaxItems : ArrayFanOut(f, p, n)
       \/ WalkJoin(f, p)

WorkerStep(f) ==
    \/ WorkerCommit(f)
    \/ WorkerRecord(f)
    \/ WorkerPrint(f)
    \/ WorkerCancelledRecord(f)
    \/ WorkerCancelledFinish(f)

SupervisorStep ==
    \/ SupCall
    \/ SupSetup
    \/ SupLoop
    \/ SupMkdir
    \/ SupWaitCheck
    \/ SupSlot
    \/ SupJoin
    \/ SupStopMonitor
    \/ SupJoinMonitor
    \/ SupFailedFiles
    \/ SupFinal

\* Every thread that can run does run in the end (the interpreter switches
\* between runnable threads), and every step execution ends: a walk inside
\* a step returns, raises or fans out over a finite list.
Fairness ==
    /\ \A f \in Flows : \A p \in Dirs : WF_vars(WalkStep(f, p))
    /\ \A f \in Flows : WF_vars(WorkerStep(f))
    /\ WF_vars(SupervisorStep)
    /\ WF_vars(MonitorStops)

LiveSpec == Spec /\ Fairness

\* A run in a directory that an earlier run used: mkdtemp hands out the
\* directory of that run again (as a stubbed mkdtemp does), which still holds
\* the finished.txt the earlier run wrote for its one flow.
EarlierLines == << [flow |-> 0, line |-> FinishedLine("done", <<>>)] >>

RerunInputs == { inp \in RunInputs : inp.total = FanFlows }

RerunInit ==
    /\ RunInitWith(RerunInputs, EarlierLines)
    /\ base_config = <<>>
    /\ key_files = <<>>
    /\ append_filepath = FALSE
    /\ loaded = <<>>
    /\ flow_configs = <<>>
    /\ gen_pc = "idle"
    /\ UtilIdle

RerunSpec == RerunInit /\ [][Next]_vars

\* Calls that pass a `parallel` of 0 or less, beside the calls of RunInputs.
NonPositiveParallelInputs ==
    [total : {NumFlows}, parallel : (-1)..0,
     max_flow_failures : {1}, halt : BOOLEAN,
     array : {[f \in Flows |-> Linear]}, config : {KeyedConfig},
     ipaths : {NoPaths}, max_flows : {<<>>},
     list : {TRUE}, final_codex : {TRUE}]

AnyParallelInit ==
    /\ RunInitWith(RunInputs \cup NonPositiveParallelInputs, <<>>)
    /\ base_config = <<>>
    /\ key_files = <<>>
    /\ append_filepath = FALSE
    /\ loaded = <<>>
    /\ flow_configs = <<>>
    /\ gen_pc = "idle"
    /\ UtilIdle

AnyParallelSpec == AnyParallelInit /\ [][Next]_vars

----------------------------------------------------------------------------
(* Vocabulary of the properties *)

\* orchestrate has returned or raised.
RunOver == sup_pc = "exit"

\* Flows whose worker thread was started.
Launched == { f \in Flows : fl[f].pc # "none" }

\* Positions of the lines of finished.txt written for flow f.
LinesOf(f) == { i \in 1..Len(finished_file) : finished_file[i].flow = f }

\* The status a line of finished.txt starts with.
StatusOf(entry) == entry.line[1]

\* The flow has a finished.txt line with status `failed`.
RecordedFailed(f) == \E i \in LinesOf(f) : StatusOf(finished_file[i]) = "failed"

\* Lines of failed_files (none when the file was not written).
FailedFileLines == IF failed_file[1] = "lines" THEN failed_file[2] ELSE <<>>

\* Threads of flow f that are between the increment and the decrement of step i.
Executing(f, i) == { p \in DOMAIN th[f] : th[f][p].pc = "run" /\ th[f][p].idx = i }

\* _run_flow of flow f has returned or raised.
RunFlowOver(f) == fl[f].pc \notin {"none", "run"}

\* The walk of thread p went into a fan-out: the last output it recorded is
\* the list its array step produced.
FannedOut(f, p) ==
    /\ Len(th[f][p].outputs) > 0
    /\ IsList(th[f][p].outputs[Len(th[f][p].outputs)])

\* The other branch workers of the fan-out that thread p belongs to.
Siblings(f, p) == IF p = <<>> THEN {} ELSE ChildrenOf(f, Parent(p)) \ {p}

----------------------------------------------------------------------------
(* C1: at every moment the number of flow worker threads started and not   *)
(* yet finished is at most `parallel`.                                     *)
C1_ConcurrencyCap == ActiveWorkers <= parallel

\* The cap is reached while a further flow waits for a slot.
C1_Witness ==
    /\ sup_pc = "wait"
    /\ parallel = MaxParallel
    /\ ActiveWorkers = parallel
    /\ next_flow <= total

(* C2: orchestrate raises MaxFlowFailuresExceeded iff halt_on_max_failures *)
(* is true and failed_flows >= max_flow_failures; otherwise it returns the *)
(* accumulated results.                                                    *)
C2_RaiseIffBudget ==
    RunOver =>
        /\ outcome \in {"raised", "returned"}
        /\ outcome = "raised" <=>
              (halt_on_max_failures /\ failed_flows >= max_flow_failures)

\* A run that raised with the budget met exactly.
C2_Witness ==
    /\ RunOver
    /\ outcome = "raised"
    /\ failed_flows = max_flow_failures
    /\ max_flow_failures = MaxFailures

(* C3 as stated: every start of a flow worker happens before the latch is  *)
(* set, i.e. no worker is ever started while the latch is set.             *)
C3_NoStartAfterLatch == late_started = {}

(* C3 as amended: after the latch is set at most one further flow worker   *)
(* is started (the one whose wait-loop check preceded the set), and that   *)
(* flow ends cancelled.                                                    *)
C3_AtMostOneLateStart ==
    /\ Cardinality(late_started) <= 1
    /\ \A f \in late_started :
          /\ fl[f].pc # "commit"
          /\ fl[f].pc = "dead" => fl[f].raised /\ RecordedFailed(f)

\* A flow was started after the set and the loop then stopped with a flow
\* still unscheduled.
C3_Witness ==
    /\ RunOver
    /\ late_started # {}
    /\ next_flow <= total

(* C4: for every launched flow, after the run flow_failed.txt exists in    *)
(* its directory iff its finished.txt line has status `failed`.            *)
C4_MarkerIffFailedLine ==
    RunOver => \A f \in Launched : fl[f].marker <=> RecordedFailed(f)

\* A run with a cancelled flow (marker, failed) beside a flow that is done.
C4_Witness ==
    /\ RunOver
    /\ \E f, g \in Launched :
          /\ fl[f].raised /\ fl[f].marker
          /\ ~fl[g].marker /\ ~RecordedFailed(g)

(* C5: when orchestrate returns or raises, finished.txt has exactly one    *)
(* line per launched flow worker and no other line, and the finished       *)
(* counter equals that number.                                             *)
C5_OneLinePerLaunchedFlow ==
    RunOver =>
        /\ \A f \in Launched : Cardinality(LinesOf(f)) = 1
        /\ Len(finished_file) = Cardinality(Launched)
        /\ finished = Cardinality(Launched)

\* A run that launched every flow, one of them cancelled.
C5_Witness ==
    /\ RunOver
    /\ Cardinality(Launched) = NumFlows
    /\ \E f \in Launched : fl[f].raised

(* C6: a flow in which a branch walk or a branch worker observes the latch *)
(* set ends cancelled: _run_flow raises FlowCancelled after all its branch *)
(* workers have finished, flow_failed.txt is written and the finished.txt  *)
(* line says `failed`, also when none of its own steps failed.             *)
C6_ObservedLatchEndsCancelled ==
    \A f \in Flows :
        /\ fl[f].saw_cancel => fl[f].flow_failed
        /\ (fl[f].saw_cancel /\ RunFlowOver(f)) => (fl[f].raised /\ fl[f].marker)
        /\ (fl[f].saw_cancel /\ fl[f].pc = "dead") => RecordedFailed(f)
        /\ fl[f].raised => \A p \in DOMAIN th[f] : th[f][p].pc = "done"

\* Two flows with branches and a budget of one: one flow fails a step, the
\* other has no failed step, saw the latch in a branch and ends `failed`.
C6_Witness ==
    /\ RunOver
    /\ max_flow_failures = 1
    /\ \E f, g \in Launched :
          /\ f # g
          /\ Cardinality(DOMAIN th[f]) > 1 /\ Cardinality(DOMAIN th[g]) > 1
          /\ ~fl[g].raised /\ fl[g].flow_failed
          /\ fl[f].raised /\ fl[f].saw_cancel /\ RecordedFailed(f) /\ fl[f].marker
          /\ Len(th[f][<<>>].res) > 0
          /\ \A p \in DOMAIN th[f] : \A i \in 1..Len(th[f][p].res) :
                th[f][p].res[i].kind = "output"

(* C7 as stated: after a run the number of lines of failed_files equals    *)
(* the number of flows whose finished.txt status is `failed` and whose     *)
(* interpolated_paths is non-empty, each line that flow's paths            *)
(* comma-joined.                                                           *)
C7_FailedFilesMatchFinished ==
    RunOver =>
        LET failed == { f \in Launched : RecordedFailed(f) /\ Len(ipaths[f]) > 0 } IN
        /\ Len(FailedFileLines) = Cardinality(failed)
        /\ { FailedFileLines[i] : i \in 1..Len(FailedFileLines) }
              = { Join(",", ipaths[f]) : f \in failed }

(* C7 as amended: the lines of failed_files are those of the flows that    *)
(* ran to the end with a failure (the flows counted in failed_flows) and   *)
(* have non-empty interpolated_paths; a flow that ended cancelled has      *)
(* status `failed` in finished.txt but no line in failed_files.            *)
C7_FailedFilesMatchCounted ==
    RunOver =>
        LET counted == { f \in Launched :
                            fl[f].flow_failed /\ ~fl[f].raised /\ Len(ipaths[f]) > 0 } IN
        /\ Len(FailedFileLines) = Cardinality(counted)
        /\ { FailedFileLines[i] : i \in 1..Len(FailedFileLines) }
              = { Join(",", ipaths[f]) : f \in counted }
        /\ failed_flows = Cardinality({ f \in Launched : fl[f].flow_failed /\ ~fl[f].raised })

\* failed_files has a line of two joined paths while a cancelled flow with
\* paths has none.
C7_Witness ==
    /\ RunOver
    /\ \E i \in 1..Len(FailedFileLines) : Len(FailedFileLines[i]) = 3
    /\ \E f \in Launched : fl[f].raised /\ Len(ipaths[f]) > 0 /\ RecordedFailed(f)

(* C8: the line `Maximum flow failures reached` is printed exactly once in *)
(* a run where the latch is tripped, however many workers reach the        *)
(* budget, and not at all in a run where it is not.                        *)
C8_MessageExactlyOnce ==
    /\ msg_count <= 1
    /\ msg_count = 1 => cancel_event
    /\ RunOver => msg_count = (IF cancel_event THEN 1 ELSE 0)

\* Two workers reached the budget and the line was printed once.
C8_Witness ==
    /\ RunOver
    /\ cancel_event
    /\ failed_flows > max_flow_failures
    /\ msg_count = 1

(* C9: with halt_on_max_failures false the latch is never set, no flow is  *)
(* cancelled, every flow of flow_configs is launched and walks to the end  *)
(* of its steps or to a failure, and orchestrate returns the results of    *)
(* all flows without raising.                                              *)
C9_NoHaltRunsEverything ==
    ~halt_on_max_failures =>
        /\ ~cancel_event
        /\ \A f \in Flows : ~fl[f].raised /\ ~fl[f].saw_cancel
        /\ RunOver =>
              /\ outcome = "returned"
              /\ Launched = 1..total
              /\ \A f \in 1..total :
                    SelectSeq(results, LAMBDA r : r.flow = f) = fl[f].res
              /\ \A i \in 1..Len(results) :
                    results[i].kind = "output" => results[i].idx = NumSteps

\* Every flow ran and more flows failed than the budget, yet the run returned.
C9_Witness ==
    /\ RunOver
    /\ ~halt_on_max_failures
    /\ total = NumFlows
    /\ failed_flows > max_flow_failures
    /\ outcome = "returned"

(* C10: every increment of a step's active counter is matched by a         *)
(* decrement on every exit path, so the counters are all 0 when            *)
(* orchestrate returns or raises, and a flow whose _run_flow has returned  *)
(* or raised FlowCancelled holds none of them (they are all 0 unless       *)
(* another flow is inside a step).                                         *)
C10_CountersBalanced ==
    /\ RunOver => \A i \in Steps : step_counts[i] = 0
    /\ \A f \in Flows : RunFlowOver(f) =>
          \A i \in Steps :
              /\ Executing(f, i) = {}
              /\ step_counts[i] =
                    Cardinality(UNION { { <<g, p>> : p \in Executing(g, i) } :
                                          g \in Flows \ {f} })

\* _run_flow has just raised FlowCancelled in a flow with branches, a step
\* of it failed as well, and the counters are all 0.
C10_Witness ==
    /\ \A i \in Steps : step_counts[i] = 0
    /\ \E f \in Launched :
          /\ fl[f].pc = "c_record"
          /\ Cardinality(DOMAIN th[f]) > 1
          /\ \E i \in 1..Len(th[f][<<>>].res) : th[f][<<>>].res[i].kind = "error"

(* C11: an array step whose output parses as a list of n elements starts  *)
(* exactly n branch workers; branch k walks the remaining steps in          *)
(* curr_dir/branch_k with element k as its prev_output (a string as it is,  *)
(* any other value re-serialised); the walk ends only after all n workers   *)
(* have finished and returns the union of the branches' results: n results  *)
(* when the remaining steps are non-array and all succeed.                  *)
C11_FanOutBranches ==
    \A f \in Flows : \A p \in DOMAIN th[f] :
        FannedOut(f, p) =>
            LET t == th[f][p]
                list == t.outputs[Len(t.outputs)]
                n == list[1][2]
                item(k) == Loads(list)[k + 1]
                kids == ChildrenOf(f, p)
                all == UNION { Range(th[f][q].ret) : q \in kids }
            IN
            /\ kids = { Append(p, k) : k \in 0..(n - 1) }
            /\ \A k \in 0..(n - 1) :
                  LET b == th[f][Append(p, k)] IN
                  /\ b.first = t.idx + 1
                  /\ b.given = IF item(k).type = "str" THEN item(k).text
                               ELSE Dumps(item(k))
                  /\ Len(b.ret) = Cardinality(Range(b.ret))
            /\ t.pc = "done" => \A q \in kids : th[f][q].pc = "done"
            /\ t.exit = "returned" =>
                  /\ Range(t.ret) = all
                  /\ Len(t.ret) = Cardinality(all)
                  /\ ( /\ \A i \in Steps : i > t.idx => ~array[f][i]
                       /\ \A r \in all : r.kind = "output" )
                     => Len(t.ret) = n

\* A fan-out over MaxItems elements, a string and a number among them, whose
\* walk returned one result per branch, each from the end of the steps.
C11_Witness ==
    \E f \in Flows : \E p \in DOMAIN th[f] :
        /\ FannedOut(f, p)
        /\ th[f][p].exit = "returned"
        /\ Len(th[f][p].ret) = MaxItems
        /\ \A r \in Range(th[f][p].ret) : r.kind = "output" /\ r.idx = NumSteps
        /\ \E q \in ChildrenOf(f, p) : th[f][q].given[1][1] = "digit"
        /\ \E q \in ChildrenOf(f, p) : th[f][q].given[1][1] = "char"

(* C12: when a step raises, the flow is marked failed, the branch returns   *)
(* exactly one result (empty output, the error file, curr_dir), no later    *)
(* step of that branch is started, and the sibling branches of the same     *)
(* fan-out are left to run their remaining steps.                           *)
C12_StepRaises ==
    [][ \A f \in Flows : \A p \in Dirs :
          (p \in DOMAIN th[f] /\ StepRaises(f, p)) =>
              LET t == th[f][p] IN
              /\ fl'[f].flow_failed
              /\ th'[f][p].pc = "done" /\ th'[f][p].exit = "returned"
              /\ th'[f][p].ret = << [flow |-> f, dir |-> p, kind |-> "error",
                                     idx |-> t.idx, output |-> <<>>] >>
              /\ th'[f][p].started = t.started
              /\ t.started[Len(t.started)] = t.idx
              /\ \A q \in Siblings(f, p) : th'[f][q] = th[f][q]
              /\ p # <<>> => th'[f][Parent(p)].cancelled = th[f][Parent(p)].cancelled
              /\ cancel_event' = cancel_event
      ]_vars

\* A branch whose step raised has returned its error result, a sibling of it
\* has walked to the end of the steps, and the fan-out returned both.
C12_Witness ==
    \E f \in Flows : \E p \in DOMAIN th[f] :
        /\ p # <<>>
        /\ th[f][p].exit = "returned"
        /\ Len(th[f][p].ret) = 1 /\ th[f][p].ret[1].kind = "error"
        /\ th[f][p].idx < NumSteps
        /\ \E q \in Siblings(f, p) :
              /\ th[f][q].exit = "returned"
              /\ Len(th[f][q].ret) = 1 /\ th[f][q].ret[1].kind = "output"
              /\ th[f][q].idx = NumSteps
        /\ th[f][Parent(p)].exit = "returned"
        /\ fl[f].flow_failed

(* C13: when the output of an array step is not a JSON list, the flow is    *)
(* marked failed, no branch worker is started, no later step runs in that   *)
(* walk, and the walk returns the single result (empty output, the file     *)
(* step_i_array.txt, curr_dir).                                            *)
C13_ArrayParseFails ==
    [][ \A f \in Flows : \A p \in Dirs :
          (p \in DOMAIN th[f] /\ ArrayParseFails(f, p)) =>
              LET t == th[f][p] IN
              /\ fl'[f].flow_failed
              /\ DOMAIN th'[f] = DOMAIN th[f]
              /\ ChildrenOf(f, p) = {}
              /\ th'[f][p].pc = "done" /\ th'[f][p].exit = "returned"
              /\ th'[f][p].ret = << [flow |-> f, dir |-> p, kind |-> "array_error",
                                     idx |-> t.idx, output |-> <<>>] >>
              /\ th'[f][p].started = t.started
              /\ t.started[Len(t.started)] = t.idx
      ]_vars

\* A nested array step failed to parse in one branch: the branch has no
\* branch directory below it and returned the one array error.
C13_Witness ==
    \E f \in Flows : \E p \in DOMAIN th[f] :
        /\ p # <<>>
        /\ th[f][p].exit = "returned"
        /\ th[f][p].ret = << [flow |-> f, dir |-> p, kind |-> "array_error",
                              idx |-> NumSteps - 1, output |-> <<>>] >>
        /\ ChildrenOf(f, p) = {}
        /\ fl[f].flow_failed

(* C14: within one branch walk the steps run in configuration order: step   *)
(* idx+1 is started only after step idx has completed, no index is skipped  *)
(* or repeated, and step idx+1 receives the output of step idx.             *)
C14_StepsInOrder ==
    \A f \in Flows : \A p \in DOMAIN th[f] :
        LET t == th[f][p] IN
        /\ \A j \in 1..Len(t.started) : t.started[j] = t.first + j - 1
        /\ Len(t.received) = Len(t.started)
        /\ t.pc = "run" => Len(t.outputs) = Len(t.started) - 1
        /\ t.pc \in {"entry", "check", "start"} => Len(t.outputs) = Len(t.started)
        /\ \A j \in 1..Len(t.received) :
              t.received[j] = IF j = 1 THEN t.given ELSE t.outputs[j - 1]

\* A walk is inside its last step, having started every step once and in
\* order, and the last step was given the non-empty output of the one before.
C14_Witness ==
    \E f \in Flows :
        /\ <<>> \in DOMAIN th[f]
        /\ th[f][<<>>].pc = "run"
        /\ th[f][<<>>].started = [j \in 1..NumSteps |-> j - 1]
        /\ th[f][<<>>].received[NumSteps] = th[f][<<>>].outputs[NumSteps - 1]
        /\ th[f][<<>>].received[NumSteps] # <<>>

(* What a step's `inputs` list selects: a string names the step with that  *)
(* name, an integer is the absolute step index; the text is the recorded    *)
(* outputs of the selected steps in the listed order, a newline between.    *)
Resolve(f, ref) ==
    IF ref[1] = "index" THEN ref[2]
    ELSE CHOOSE i \in Steps : config[f][i].name = ref[2]

RECURSIVE JoinLines(_)
JoinLines(texts) ==
    IF Len(texts) = 0 THEN <<>>
    ELSE IF Len(texts) = 1 THEN texts[1]
    ELSE texts[1] \o << <<"newline", 0>> >> \o JoinLines(Tail(texts))

SelectedText(f, t, refs) ==
    JoinLines([k \in 1..Len(refs) |-> t.outputs[Resolve(f, refs[k]) - t.first + 1]])

(* C15: a step that has `inputs` receives the recorded outputs of the       *)
(* referenced earlier steps (by name or by absolute index) joined in the    *)
(* listed order, in place of the output of the step just before it.         *)
C15_InputsSelectOutputs ==
    \A f \in Flows : \A p \in DOMAIN th[f] :
        LET t == th[f][p] IN
        \A j \in 1..Len(t.started) :
            LET refs == config[f][t.started[j]].inputs IN
            Len(refs) > 0 => t.received[j] = SelectedText(f, t, refs)

(* A text contains a non-empty text when the latter occurs in it as a run   *)
(* of neighbouring tokens.                                                  *)
Contains(text, sub) ==
    /\ Len(sub) > 0
    /\ \E k \in 0..(Len(text) - Len(sub)) : SubSeq(text, k + 1, k + Len(sub)) = sub

\* The early-exit condition of step i of flow f holds of the step's output.
EarlyExitHolds(f, i, output) ==
    \/ config[f][i].exit_on_empty_response /\ output = <<>>
    \/ Contains(output, config[f][i].exit_on_response_contains)

(* C16: when a step's early-exit condition holds after it ran, no later     *)
(* step is started, the flow is not marked failed, and the walk returns a   *)
(* single result with empty output and the path of a log file.              *)
C16_EarlyExitEndsFlow ==
    \A f \in Flows : \A p \in DOMAIN th[f] :
        LET t == th[f][p] IN
        \A j \in 1..Len(t.outputs) :
            EarlyExitHolds(f, t.first + j - 1, t.outputs[j]) =>
                /\ Len(t.started) = j
                /\ t.pc = "done" =>
                      /\ t.exit = "returned"
                      /\ ~fl[f].flow_failed
                      /\ Len(t.ret) = 1
                      /\ t.ret[1].output = <<>> /\ t.ret[1].kind = "log"

(* C17: orchestrate called with max_flows = n runs the flows under that    *)
(* cap: for n > 0 at most n flow directories are created and at most n      *)
(* workers launched, in list order; with n = 0 there is no cap, and a run   *)
(* that nothing cancels launches every flow.                                *)
C17_MaxFlowsCap ==
    (max_flows # <<>> /\ max_flows[1] >= 0 /\ max_flow_failures >= 1) =>
        LET n == max_flows[1] IN
        /\ sup_pc # "rejected"
        /\ n > 0 =>
              /\ Cardinality(flow_dirs) <= n
              /\ Cardinality(Launched) <= n
              /\ Launched = 1..Cardinality(Launched)
        /\ (n = 0 /\ RunOver /\ ~cancel_event) => Launched = 1..total

(* C18: orchestrate rejects max_flow_failures < 1 and max_flows < 0 with a  *)
(* ValueError at entry, before any work starts: no run directory is         *)
(* created, no monitor or flow worker is started and no step runs.          *)
C18_RejectsAtEntry ==
    (max_flow_failures < 1 \/ (max_flows # <<>> /\ max_flows[1] < 0)) =>
        /\ sup_pc \in {"call", "rejected"}
        /\ sup_pc = "rejected" => outcome = "value_error"
        /\ ~run_dir /\ flow_dirs = {}
        /\ mon_pc = "none" /\ Launched = {}
        /\ \A i \in Steps : step_counts[i] = 0

(* Vocabulary of the expansion's properties *)

\* The expansion axes of the keys: the source paths each manifest lists.
Axes == [k \in 1..Len(key_files) |-> ManifestPaths(key_files[k].lines)]

\* The combinations of one source path per key.
Combinations ==
    { c \in [1..Len(key_files) -> SourcePaths] :
        \A k \in 1..Len(key_files) : c[k] \in Range(Axes[k]) }

\* How many times a value occurs in a list.
Count(seq, v) == Cardinality({ i \in 1..Len(seq) : seq[i] = v })

\* The product of numbers.
RECURSIVE ProductOf(_)
ProductOf(numbers) ==
    IF Len(numbers) = 0 THEN 1 ELSE Head(numbers) * ProductOf(Tail(numbers))

\* The product of the sizes of the key axes other than the k-th (k = 0: all).
OtherAxesProduct(k) ==
    ProductOf([j \in 1..Len(key_files) |-> IF j = k THEN 1 ELSE Len(Axes[j])])

\* The emitted flows whose interpolated_paths satisfy a condition.
FlowsWhere(Cond(_)) ==
    { n \in 1..Len(flow_configs) : Cond(flow_configs[n].interpolated_paths) }

StdinSteps ==
    { i \in 1..Len(base_config) :
        Len(base_config[i].stdin_file) > 0 /\ base_config[i].stdin_file[1] = "manifest" }

(* C20: every step whose stdin_file names a manifest adds one expansion    *)
(* axis: with a manifest of m paths and key axes of total product p exactly *)
(* m*p flows are emitted, each with stdin_file rewritten to one concrete    *)
(* source path of the manifest and that path appended to                    *)
(* interpolated_paths after the key paths, also when key_files is empty.    *)
C20_StdinManifestAxis ==
    (gen_pc = "done" /\ StdinSteps # {}) =>
        /\ Len(flow_configs) =
              OtherAxesProduct(0)
              * ProductOf([i \in 1..Len(base_config) |->
                    IF i \in StdinSteps
                    THEN Len(ManifestPaths(base_config[i].stdin_file[2])) ELSE 1])
        /\ \A n \in 1..Len(flow_configs) :
              LET flow == flow_configs[n] IN
              /\ Len(flow.interpolated_paths) = Len(key_files) + Cardinality(StdinSteps)
              /\ \A i \in StdinSteps :
                    LET place == Len(key_files)
                                 + Cardinality({ j \in StdinSteps : j <= i })
                    IN
                    /\ flow.steps[i].stdin_file[1] = "source"
                    /\ flow.steps[i].stdin_file[2]
                          \in Range(ManifestPaths(base_config[i].stdin_file[2]))
                    /\ flow.interpolated_paths[place] = flow.steps[i].stdin_file[2]

\* The product of the sizes of the key axes after the k-th.
LaterAxesProduct(k) ==
    ProductOf([j \in 1..Len(key_files) |-> IF j > k THEN Len(Axes[j]) ELSE 1])

\* The line of the k-th manifest that the n-th combination binds, counting
\* the combinations in cartesian order with the first key varying slowest.
LineOf(n, k) == (((n - 1) \div LaterAxesProduct(k)) % Len(Axes[k])) + 1

(* C21: the expansion is a function of the base configuration and the      *)
(* manifests, and it is ordered: the n-th flow binds, for every key, the    *)
(* manifest line that the n-th combination in cartesian order (manifest     *)
(* line order within each axis, first key slowest) selects; its             *)
(* interpolated_paths lists those source paths in the order the keys were   *)
(* declared, and its steps are the base steps with the texts of exactly     *)
(* those paths substituted.                                                 *)
C21_ExpansionOrdered ==
    (gen_pc = "done" /\ Len(key_files) > 0) =>
        /\ Len(flow_configs) = OtherAxesProduct(0)
        /\ \A n \in 1..Len(flow_configs) :
              LET flow == flow_configs[n]
                  bound == [k \in 1..Len(key_files) |-> Axes[k][LineOf(n, k)]]
                  mapping == [k \in 1..Len(key_files) |->
                                 [key |-> key_files[k].key,
                                  value |-> Entry(bound[k], append_filepath).text]]
              IN
              /\ flow.interpolated_paths = bound
              /\ flow.steps = [i \in 1..Len(base_config) |->
                                  NewStep(base_config[i], mapping)]

\* An expansion over two keys whose manifests both list two different
\* paths: four flows, the second and the third of which differ in both keys.
C21_Witness ==
    /\ gen_pc = "done"
    /\ Len(key_files) = 2
    /\ \A k \in 1..2 : Len(Axes[k]) = 2 /\ Axes[k][1] # Axes[k][2]
    /\ Len(flow_configs) = 4
    /\ flow_configs[2].interpolated_paths = <<Axes[1][1], Axes[2][2]>>
    /\ flow_configs[3].interpolated_paths = <<Axes[1][2], Axes[2][1]>>
    /\ Len(base_config) > 0

(* C22: at the start of every run finished.txt is truncated: once the run   *)
(* has set up its directory, finished.txt holds only lines of this run's    *)
(* flows, also when the directory already held a finished.txt of an earlier *)
(* run.                                                                     *)
C22_FinishedTruncated ==
    sup_pc \notin {"call", "rejected", "setup"} =>
        \A i \in 1..Len(finished_file) : finished_file[i].flow \in Launched

(* C23 as stated: when the run is over the lines of finished.txt are in the *)
(* order in which the flows' workers bumped the finished counter, whatever  *)
(* the interleaving of the workers.                                         *)
C23_LinesInBumpOrder ==
    RunOver =>
        \A i, j \in 1..Len(finished_file) :
            i < j => fl[finished_file[i].flow].bump < fl[finished_file[j].flow].bump

(* C23 as amended: every line of finished.txt belongs to a flow whose       *)
(* worker has bumped the finished counter or, being cancelled, is about to  *)
(* (a worker that ran to the end bumps before it appends, a cancelled one   *)
(* after), and with parallel = 1 the lines are in launch order, which is    *)
(* then also the order of the bumps.                                        *)
C23_LinesInLaunchOrderWhenSerial ==
    /\ \A i \in 1..Len(finished_file) :
          LET w == fl[finished_file[i].flow] IN
          w.bump > 0 \/ w.pc = "c_finish"
    /\ parallel = 1 =>
          \A i \in 1..Len(finished_file) :
              /\ finished_file[i].flow = i
              /\ fl[i].bump \in {0, i}

\* A run with parallel = 1 that is over, with a line for each of NumFlows
\* flows, one of them failed and one done.
C23_Witness ==
    /\ RunOver
    /\ parallel = 1
    /\ Len(finished_file) = NumFlows
    /\ \E i, j \in 1..NumFlows :
          /\ StatusOf(finished_file[i]) = "failed"
          /\ StatusOf(finished_file[j]) = "done"
    /\ \A f \in 1..NumFlows : fl[f].bump = f

(* C24 as stated: the command-line program exits with code 1 exactly when   *)
(* orchestrate raises MaxFlowFailuresExceeded and with 0 when it returns;   *)
(* with --ignore-max-failures it exits 0 and `Maximum flow failures         *)
(* reached` is never printed.                                               *)
C24_ExitCodes ==
    /\ exit_code # <<>> =>
          /\ exit_code[1] = 1 <=> outcome = "raised"
          /\ outcome = "returned" => exit_code[1] = 0
          /\ ~halt_on_max_failures => exit_code[1] = 0
    /\ ~halt_on_max_failures => msg_count = 0

(* C24 as amended: the program exits with code 1 when orchestrate raises    *)
(* MaxFlowFailuresExceeded or rejects --max-flow-failures below 1 with a    *)
(* ValueError, and with 0 exactly when orchestrate returns; with            *)
(* --ignore-max-failures and a budget of at least 1 it exits 0, and with    *)
(* --ignore-max-failures the message is never printed.                      *)
C24_ExitCodesWithRejection ==
    /\ exit_code # <<>> =>
          /\ exit_code[1] = 1 <=> outcome \in {"raised", "value_error"}
          /\ exit_code[1] = 0 <=> outcome = "returned"
          /\ outcome = "value_error" <=> max_flow_failures < 1
          /\ (~halt_on_max_failures /\ max_flow_failures >= 1) => exit_code[1] = 0
    /\ ~halt_on_max_failures => msg_count = 0

\* The program has exited with 0 after a run with --ignore-max-failures in
\* which every flow failed, more flows than the budget.
C24_Witness ==
    /\ exit_code = <<0>>
    /\ ~halt_on_max_failures
    /\ failed_flows = total
    /\ failed_flows > max_flow_failures
    /\ msg_count = 0

(* Vocabulary of the properties of call_openai_api *)

\* The attempts made so far that ended with a network-class error.
NetworkFailures == { i \in 1..Len(api.calls) : api.calls[i][1] = "network" }

(* C25: call_openai_api with max_retries >= 1 makes at most max_retries     *)
(* API calls; every call but the latest ended with a network-class error    *)
(* (it retries only after one); it returns the first response it gets; the  *)
(* network error it raises is that of the max_retries-th attempt, all of    *)
(* which failed; an exception of another class is raised by the attempt     *)
(* that met it, without a further attempt; and it never gives up on a       *)
(* network error before the max_retries-th attempt.                         *)
C25_ApiRetries ==
    (api.pc # "idle" /\ api.client /\ api.max_retries >= 1) =>
        LET n == Len(api.calls) IN
        /\ n <= api.max_retries
        /\ \A i \in 1..(n - 1) : i \in NetworkFailures
        /\ api.pc = "sleep" => (n \in NetworkFailures /\ n < api.max_retries)
        /\ api.pc = "done" =>
              /\ n >= 1
              /\ api.calls[n][1] = "response" => api.result = <<"returned", <<"response", n>>>>
              /\ api.calls[n][1] = "network" =>
                    /\ n = api.max_retries
                    /\ api.result = <<"raised", api.calls[n]>>
              /\ api.calls[n][1] = "other" => api.result = <<"raised", api.calls[n]>>

\* A call with max_retries = MaxRetries whose attempts all failed with
\* network errors, the last of a class different from the first: the last
\* one is raised.
C25_Witness ==
    /\ api.pc = "done"
    /\ api.max_retries = MaxRetries
    /\ Len(api.calls) = MaxRetries
    /\ NetworkFailures = 1..MaxRetries
    /\ api.calls[1] # api.calls[MaxRetries]
    /\ api.result = <<"raised", api.calls[MaxRetries]>>

(* Vocabulary of the properties of run_codex_cli *)

\* The attempts that timed out.
TimedOut == { i \in 1..Len(cx.procs) : cx.procs[i].how[1] = "timeout" }

\* What the claim says of the attempts, the message of a failure apart: at
\* most max_retries attempts, each in a codex_exec directory of its own;
\* every attempt before the latest timed out; a timed-out attempt is killed
\* and both readers joined before anything else happens; the timeout is
\* raised on the max_retries-th attempt only; a non-zero exit raises an
\* Exception and a zero exit returns, with no further attempt.
CodexAttempts ==
    LET n == Len(cx.procs) IN
    /\ n <= cx.max_retries /\ cx.dirs <= cx.max_retries
    /\ \A i, j \in 1..n : i # j => cx.procs[i].dir # cx.procs[j].dir
    /\ \A i \in 1..(n - 1) : i \in TimedOut
    /\ \A i \in TimedOut :
          (i < n \/ cx.pc # "kill") =>
              cx.procs[i].killed /\ cx.procs[i].joined = {"t_out", "t_err"}
    /\ cx.pc = "sleep" => (n \in TimedOut /\ n < cx.max_retries)
    /\ (cx.pc = "done" /\ cx.result # <<"raised", <<"OSError">>>>) =>
          /\ n >= 1
          /\ n \in TimedOut =>
                (n = cx.max_retries /\ cx.result = <<"raised", <<"TimeoutExpired">>>>)
          /\ n \notin TimedOut =>
                /\ ~cx.procs[n].killed
                /\ cx.procs[n].joined = {"t_out", "t_err"}
                /\ cx.procs[n].how[2] # 0 =>
                      (cx.result[1] = "raised" /\ cx.result[2][1] = "Exception")
                /\ cx.procs[n].how[2] = 0 =>
                      (cx.result[1] = "returned" /\ cx.result[2][2] = cx.procs[n].dir)

\* The attempt that ended the call exited with a non-zero return code.
EndedNonZero ==
    /\ cx.pc = "done"
    /\ cx.result[1] = "raised" /\ cx.result[2][1] = "Exception"

(* C26 as stated: run_codex_cli makes at most max_retries attempts, each in *)
(* a fresh codex_exec directory; a timed-out attempt kills the process,     *)
(* joins both reader threads and is retried unless it was the last, when    *)
(* the timeout is raised; a non-zero exit raises at once with stderr as     *)
(* message; a successful attempt returns at once.                           *)
C26_CodexRetries ==
    (cx.pc # "idle" /\ cx.max_retries >= 1) =>
        /\ CodexAttempts
        /\ EndedNonZero => cx.result[2][2] = CurrentProc.how[3]

(* C26 as amended: the same, the message of a non-zero exit being what the  *)
(* process wrote to stderr when it wrote anything, and the return code as   *)
(* text when stderr is empty.                                               *)
C26_CodexRetriesMessage ==
    (cx.pc # "idle" /\ cx.max_retries >= 1) =>
        /\ CodexAttempts
        /\ EndedNonZero =>
              cx.result[2][2] = IF CurrentProc.how[3] = <<>>
                                THEN <<Str(CurrentProc.how[2])>>
                                ELSE CurrentProc.how[3]

\* A call with max_retries = MaxRetries whose first attempts timed out and
\* whose last exited non-zero with text on stderr, in the MaxRetries-th
\* directory.
C26_Witness ==
    /\ EndedNonZero
    /\ cx.max_retries = MaxRetries
    /\ Len(cx.procs) = MaxRetries
    /\ TimedOut = 1..(MaxRetries - 1)
    /\ CurrentProc.dir = MaxRetries
    /\ CurrentProc.how[3] # <<>>

(* C27: a flow worker prints the path of a result only if                  *)
(* list_codex_final_paths is set, the final step of the base configuration  *)
(* is a codex step, the result's flow ran to its end without failure (it    *)
(* neither failed nor was cancelled) and the path is a final_message.txt;   *)
(* nothing is printed for a failed or cancelled flow, when the final step   *)
(* is not codex, or when list_codex_final_paths is not set.                 *)
C27_FinalPathsOnlyOnSuccess ==
    \A r \in printed_paths :
        LET w == fl[r.flow] IN
        /\ list_codex_final_paths
        /\ final_step_is_codex
        /\ ~w.flow_failed /\ ~w.raised
        /\ w.pc \in {"print", "dead"}
        /\ r \in Range(results)
        /\ r.kind = "output"
        /\ config[r.flow][NumSteps - 1].type = "codex"

\* A run that is over in which a flow that fanned out had the
\* final_message.txt paths of two branches printed, while another flow
\* failed and had none printed.
C27_Witness ==
    /\ RunOver
    /\ \E r, q \in printed_paths : r.flow = q.flow /\ r.dir # q.dir
    /\ \E f \in Launched :
          /\ fl[f].flow_failed
          /\ config[f][NumSteps - 1].type = "codex"
          /\ \A r \in printed_paths : r.flow # f

\* Every flow worker that was started has finished, and with it every
\* thread of its flow engine.
AllWorkersFinished ==
    \A f \in Flows :
        /\ fl[f].pc \in {"none", "dead"}
        /\ \A p \in DOMAIN th[f] : th[f][p].pc = "done"

(* C28: orchestrate has returned or raised MaxFlowFailuresExceeded only     *)
(* when every launched flow worker and every branch worker has finished    *)
(* and the monitor thread has stopped, and failed_files is there only when  *)
(* all workers have finished.                                               *)
C28_ExitAfterAllJoined ==
    /\ (RunOver \/ outcome \in {"returned", "raised"}) =>
          (AllWorkersFinished /\ stop_event /\ mon_pc = "done")
    /\ failed_file # <<"absent">> => AllWorkersFinished

\* orchestrate has raised after a run in which two flows were launched, one
\* of them with branch workers, and failed_files was written.
C28_Witness ==
    /\ RunOver /\ outcome = "raised"
    /\ Cardinality(Launched) >= 2
    /\ \E f \in Launched : Cardinality(DOMAIN th[f]) >= 3
    /\ failed_file # <<"absent">>

(* C29: a step that is running when the cancellation latch is set is not   *)
(* interrupted: its thread leaves the step only by completing it, and the   *)
(* step's active counter is decremented then and not before; a thread that  *)
(* comes to a boundary check with the latch set stops there, cancelled,     *)
(* without starting another step; and no result of a cancelled flow is      *)
(* among the results orchestrate accumulates.                               *)
C29_InFlightStepCompletes ==
    /\ [](\A i \in 1..Len(results) : ~fl[results[i].flow].raised)
    /\ [][ \A f \in Flows : \A p \in Dirs :
            p \in DOMAIN th[f] =>
               LET t == th[f][p]
                   after == th'[f][p]
               IN
               /\ (cancel_event /\ t.pc = "run") =>
                     \/ after = t /\ step_counts'[t.idx] >= 1
                     \/ /\ step_counts'[t.idx] = step_counts[t.idx] - 1
                        /\ after.pc \in {"check", "join", "done"}
                        /\ after.exit # "cancelled"
                        /\ after.started = t.started
               /\ (cancel_event /\ t.pc \in {"entry", "check"} /\ after # t) =>
                     /\ after.pc = "done" /\ after.exit = "cancelled"
                     /\ after.started = t.started
                     /\ step_counts' = step_counts
                     /\ fl'[f].flow_failed
        ]_vars

\* The run is over; a flow was cancelled at a boundary check after its
\* thread had started and completed a step, none of its results is among
\* the accumulated results, and results of other flows are.
C29_Witness ==
    /\ RunOver
    /\ Len(results) > 0
    /\ \E f \in Launched :
          LET t == th[f][<<>>] IN
          /\ fl[f].raised
          /\ t.exit = "cancelled"
          /\ Len(t.started) >= 1 /\ Len(t.outputs) = Len(t.started)
          /\ \A i \in 1..Len(results) : results[i].flow # f

(* C30: the cancellation latch is write-once and budget-guarded: once set   *)
(* it is never cleared, it is set only by a flow worker committing a failed *)
(* flow while halt_on_max_failures is true and failed_flows has reached     *)
(* max_flow_failures, and so in every reachable state a set latch implies   *)
(* halt_on_max_failures and failed_flows >= max_flow_failures.              *)
C30_LatchWriteOnceBudgetGuarded ==
    /\ [](cancel_event => (halt_on_max_failures /\ failed_flows >= max_flow_failures))
    /\ [][cancel_event => cancel_event']_vars
    /\ [][(~cancel_event /\ cancel_event') =>
             \E f \in Flows :
                 /\ fl[f].pc = "commit" /\ fl'[f].pc = "record"
                 /\ fl[f].flow_failed
                 /\ halt_on_max_failures
                 /\ failed_flows' = failed_flows + 1
                 /\ failed_flows' >= max_flow_failures
       ]_vars

\* The latch was set by the MaxFailures-th failure and the run went on to
\* its end with it set.
C30_Witness ==
    /\ RunOver
    /\ cancel_event
    /\ max_flow_failures = MaxFailures
    /\ failed_flows = MaxFailures
    /\ Cardinality(Launched) > MaxFailures

(* C31: in every reachable state step_counts[i] is the number of branch     *)
(* walks, over all flows and all branches, that are executing step i        *)
(* (between its increment and its decrement); it is never negative, and a   *)
(* walk contributes to at most one counter at a time.                       *)
ExecutingAnywhere(i) == UNION { { <<f, p>> : p \in Executing(f, i) } : f \in Flows }

C31_CountersCountWalks ==
    /\ \A i \in Steps :
          /\ step_counts[i] = Cardinality(ExecutingAnywhere(i))
          /\ step_counts[i] >= 0
    /\ \A i, j \in Steps : i # j => ExecutingAnywhere(i) \cap ExecutingAnywhere(j) = {}

\* A counter above MaxItems: walks of two flows, two branches of one flow
\* among them, are inside the same step.
C31_Witness ==
    \E i \in Steps :
        /\ step_counts[i] > MaxItems
        /\ \E x, y \in ExecutingAnywhere(i) : x[1] # y[1]
        /\ \E x, y \in ExecutingAnywhere(i) : x[1] = y[1] /\ x[2] # y[2]

(* C32: branch fan-out is not limited by `parallel`: the n branch workers   *)
(* of an array step are all started before any of them is joined, and no    *)
(* branch worker waits for anything before it enters its step, so n         *)
(* branches of one flow can be inside steps at once even with parallel = 1. *)
C32_FanOutUncapped ==
    \A f \in Flows : \A p \in DOMAIN th[f] :
        /\ FannedOut(f, p) =>
              /\ Cardinality(ChildrenOf(f, p)) = th[f][p].outputs[Len(th[f][p].outputs)][1][2]
              /\ th[f][p].pc \in {"join", "done"}
        /\ th[f][p].pc = "entry" => ENABLED BranchWorkerEntry(f, p)
        /\ th[f][p].pc = "check" => ENABLED WalkCheck(f, p)
        /\ th[f][p].pc = "start" => ENABLED WalkStart(f, p)

\* With parallel = 1, the MaxItems branches of one fan-out are all inside a
\* step while the walk that started them waits in its join loop.
C32_Witness ==
    /\ parallel = 1
    /\ MaxItems > 1
    /\ \E f \in Flows : \E p \in DOMAIN th[f] :
          /\ FannedOut(f, p)
          /\ th[f][p].pc = "join"
          /\ Cardinality(ChildrenOf(f, p)) = MaxItems
          /\ \A q \in ChildrenOf(f, p) : th[f][q].pc = "run"

(* C33: directory ownership is disjoint: no two branch walks that run at    *)
(* the same time, of one flow or of two, have the same curr_dir, and every  *)
(* step artifact path (the file of step i in a given directory) is written  *)
(* at most once in a run.                                                   *)
Walks == UNION { { <<f, p>> : p \in DOMAIN th[f] } : f \in Flows }

Running(w) == th[w[1]][w[2]].pc # "done"

\* The steps a walk has entered, each with the directory its artifact goes to.
ArtifactWrites ==
    UNION { { <<w, j>> : j \in 1..Len(th[w[1]][w[2]].started) } : w \in Walks }

ArtifactPath(e) == <<CurrDir(e[1][1], e[1][2]), th[e[1][1]][e[1][2]].started[e[2]]>>

C33_DisjointDirectories ==
    /\ \A v, w \in Walks :
          (v # w /\ Running(v) /\ Running(w)) => CurrDir(v[1], v[2]) # CurrDir(w[1], w[2])
    /\ \A d, e \in ArtifactWrites : d # e => ArtifactPath(d) # ArtifactPath(e)

\* Two flows run at once, one of them with live walks two fan-outs deep in
\* different branches, and walks have written the artifact of the same step
\* in three directories.
C33_Witness ==
    \E f, g \in Flows :
        /\ f # g
        /\ \E p \in DOMAIN th[g] : Running(<<g, p>>)
        /\ \E p, q \in DOMAIN th[f] :
              /\ Len(p) = 2 /\ Len(q) = 2 /\ Parent(p) # Parent(q)
              /\ Running(<<f, p>>) /\ Running(<<f, q>>)
        /\ \E i \in Steps :
              Cardinality({ e \in ArtifactWrites : ArtifactPath(e)[2] = i }) >= 3

(* C34: when orchestrate returns, its result list is exactly the union of   *)
(* the branch results of all launched flows, each terminal branch (last     *)
(* step reached, step failed or array parse failed) contributing exactly    *)
(* one entry: nothing is lost or duplicated, whatever the interleaving of   *)
(* the branch workers and flow workers.                                     *)

\* The walks that ended by producing a result of their own.
TerminalWalks ==
    { w \in Walks : th[w[1]][w[2]].exit = "returned" /\ ~FannedOut(w[1], w[2]) }

\* Positions of the result list that hold the result of walk w.
EntriesOf(w) == { i \in 1..Len(results) : results[i].flow = w[1] /\ results[i].dir = w[2] }

C34_ResultsComplete ==
    (RunOver /\ outcome = "returned") =>
        /\ Launched = 1..total
        /\ \A w \in Walks : th[w[1]][w[2]].exit = "returned"
        /\ \A w \in TerminalWalks :
              /\ Cardinality(EntriesOf(w)) = 1
              /\ \A i \in EntriesOf(w) : <<results[i]>> = th[w[1]][w[2]].ret
        /\ Len(results) = Cardinality(TerminalWalks)

\* A run returned the results of two flows that finished side by side: the
\* branches of a fan-out among them, a failed step and a walk that reached
\* the end.
C34_Witness ==
    /\ RunOver /\ outcome = "returned"
    /\ parallel > 1
    /\ Len(results) > MaxItems
    /\ \E i, j \in 1..Len(results) :
          /\ results[i].flow # results[j].flow
          /\ results[i].kind = "error" /\ results[j].kind = "output"
    /\ \E i, j \in 1..Len(results) :
          /\ i < j /\ results[i].flow = results[j].flow
          /\ Len(results[i].dir) > 0 /\ Len(results[j].dir) > 0
          /\ results[i].dir[Len(results[i].dir)] > results[j].dir[Len(results[j].dir)]

(* C35: no thread ever holds two of the locks step_lock, progress_lock,     *)
(* finished_lock and a fan-out's res_lock at the same time, and no lock is  *)
(* held across a step execution or a thread join; hence no reachable state  *)
(* of a run is a deadlock: while a thread is alive, some thread can move.   *)
HeldBy(t) == { l \in Locks : lk.owner[l] = t }

C35_LockDiscipline ==
    /\ \A t \in LkThreads :
          /\ Cardinality(HeldBy(t)) <= 1
          /\ (At(t, "execute") \/ At(t, "join")) => HeldBy(t) = {}
          /\ ~LkAlive(t) => HeldBy(t) = {}
    /\ (\E t \in LkThreads : LkAlive(t)) => ENABLED LockNext

\* Three locks are held by three threads at once, a fourth thread waits for
\* one of them, and a thread is in a join holding nothing.
C35_Witness ==
    /\ Cardinality({ l \in Locks : lk.owner[l] # "free" }) >= 3
    /\ \E t \in LkThreads :
          /\ At(t, "acquire")
          /\ lk.owner[NextStatement(t)[2]] \notin {"free", t}
    /\ \E t \in LkThreads : At(t, "join") /\ HeldBy(t) = {}

(* C36: with halt_on_max_failures true and parallel >= 1, failed_flows      *)
(* never exceeds max_flow_failures + parallel - 1: after the latch trips    *)
(* only flows already in flight can still be counted as failed, and a flow  *)
(* started after the trip ends cancelled without being counted.             *)

\* Flows that went through `failed_flows += 1`.
Counted == { f \in Flows : fl[f].pc \in {"record", "print", "dead"}
                           /\ fl[f].flow_failed /\ ~fl[f].raised }

C36_FailuresBounded ==
    (halt_on_max_failures /\ parallel >= 1) =>
        /\ failed_flows <= max_flow_failures + parallel - 1
        /\ failed_flows = Cardinality(Counted)
        /\ \A f \in late_started :
              /\ f \notin Counted
              /\ RunFlowOver(f) => fl[f].raised

\* The bound is met: after the failure that tripped the latch, every other
\* flow in flight failed as well and was counted.
C36_Witness ==
    /\ RunOver
    /\ halt_on_max_failures
    /\ parallel = MaxParallel /\ max_flow_failures = MaxFailures
    /\ failed_flows = max_flow_failures + parallel - 1

(* C37: for parallel >= 1, if every step execution terminates and every     *)
(* array output is a finite list, every run of orchestrate terminates in    *)
(* the end (it returns or raises): the scheduling loop ends, all flow and   *)
(* branch workers finish, and the monitor stops.                            *)
Terminated ==
    \/ sup_pc = "rejected"
    \/ /\ RunOver
       /\ outcome \in {"returned", "raised"}
       /\ \A f \in Flows : fl[f].pc \in {"none", "dead"}
       /\ \A w \in Walks : ~Running(w)
       /\ mon_pc = "done"

C37_RunTerminates == (parallel >= 1) => <>Terminated

\* A run ended after its flows queued for the one slot, one of them with
\* nested fan-outs, every worker dead and the monitor stopped.
C37_Witness ==
    /\ Terminated
    /\ RunOver
    /\ parallel = 1
    /\ next_flow > total
    /\ \E f \in Flows : \E p \in DOMAIN th[f] : Len(p) = NumSteps

(* C38: with parallel <= 0 and a non-empty list of flows, orchestrate is    *)
(* not rejected at entry, launches no flow worker, never sets the latch and *)
(* never returns: the scheduling loop polls for a free slot forever.        *)
Polling == sup_pc \in {"wait", "slot"}

C38_NonPositiveParallelPollsForever ==
    /\ [](  (parallel <= 0 /\ total > 0 /\ ~BudgetInvalid(max_flow_failures)
             /\ max_flows = <<>>) =>
               /\ sup_pc \notin {"rejected", "exit"}
               /\ outcome = "none"
               /\ Launched = {}
               /\ ~cancel_event
               /\ next_flow = 1
               /\ Polling => ENABLED (SupWaitCheck \/ SupSlot) )
    /\ [][ (parallel <= 0 /\ Polling) => Polling' ]_vars

\* The supervisor has made the first flow's directory and found no free
\* slot: it is about to poll again, with the monitor running.
C38_Witness ==
    /\ parallel <= 0
    /\ sup_pc = "slot"
    /\ flow_dirs = {1}
    /\ mon_pc = "run"
    /\ ActiveWorkers = 0

(* C39: an array step whose output is the empty JSON list starts no branch  *)
(* worker and runs no later step: the walk returns zero results and the     *)
(* flow is not marked failed, so a flow whose own walk met the empty list   *)
(* is recorded as `done` while contributing nothing to the result list.     *)

\* The walk of thread p fanned out over a list of no items.
FannedOutEmpty(f, p) ==
    /\ FannedOut(f, p)
    /\ th[f][p].outputs[Len(th[f][p].outputs)] = ArrayText(0)

C39_EmptyArrayEndsWalk ==
    \A f \in Flows : \A p \in DOMAIN th[f] :
        FannedOutEmpty(f, p) =>
            LET t == th[f][p] IN
            /\ ChildrenOf(f, p) = {}
            /\ Len(t.started) = Len(t.outputs)
            /\ t.started[Len(t.started)] = t.idx
            /\ array[f][t.idx]
            /\ t.pc \in {"join", "done"}
            /\ t.pc = "done" => (t.exit = "returned" /\ t.ret = <<>>)
            /\ p = <<>> =>
                  /\ ~fl[f].flow_failed /\ ~fl[f].marker /\ ~fl[f].raised
                  /\ \A i \in LinesOf(f) : StatusOf(finished_file[i]) = "done"
                  /\ fl[f].pc = "dead" => Cardinality(LinesOf(f)) = 1
                  /\ \A i \in 1..Len(results) : results[i].flow # f

\* After a run, one flow whose first step gave the empty list has its
\* `done` line and no result, beside a flow that contributed results.
C39_Witness ==
    /\ RunOver
    /\ results # <<>>
    /\ \E f \in Launched :
          /\ FannedOutEmpty(f, <<>>)
          /\ th[f][<<>>].idx = 0
          /\ fl[f].pc = "dead"
          /\ \E i \in LinesOf(f) : StatusOf(finished_file[i]) = "done"

\* Flow directories made under run_dir for which no worker was launched.
Unlaunched == flow_dirs \ Launched

\* Where the supervisor was when the latch was set ("none": never set).
LatchSetAt ==
    IF \E f \in Flows : fl[f].trip_at # "none"
    THEN fl[CHOOSE f \in Flows : fl[f].trip_at # "none"].trip_at
    ELSE "none"

(* C40 as stated: the flow directories made exceed the flow workers         *)
(* launched by at most 1 at every moment; after a run the difference is 1   *)
(* exactly when the latch was set while the supervisor was waiting for a    *)
(* free slot, and that directory has neither a finished.txt line nor a      *)
(* flow_failed.txt marker.  The supervisor is taken to wait for the slot of *)
(* a flow from the flow's latch check in the for loop until the launch.     *)
WaitingForSlot == {"mkdir", "wait", "slot"}

C40_OrphanDirIffSetWhileWaiting ==
    /\ Launched \subseteq flow_dirs
    /\ Cardinality(Unlaunched) <= 1
    /\ RunOver => (Unlaunched # {} <=> LatchSetAt \in WaitingForSlot)
    /\ \A f \in Unlaunched : LinesOf(f) = {} /\ ~fl[f].marker

(* C40 as amended: the difference is at most 1 at every moment; after a run *)
(* it is 1 exactly when the latch was set while the supervisor was waiting  *)
(* for a free slot and no worker was started after the set (a set between   *)
(* the wait loop's latch check and a launch into a free slot still starts   *)
(* the worker); that directory has neither a finished.txt line nor a        *)
(* marker.                                                                  *)
C40_OrphanDirIffSeenInWaitLoop ==
    /\ Launched \subseteq flow_dirs
    /\ Cardinality(Unlaunched) <= 1
    /\ RunOver => (Unlaunched # {} <=>
                      (LatchSetAt \in WaitingForSlot /\ late_started = {}))
    /\ \A f \in Unlaunched : LinesOf(f) = {} /\ ~fl[f].marker

\* A run ended with one flow directory that no worker was launched for, the
\* latch having been set while the supervisor polled for a slot.
C40_Witness ==
    /\ RunOver
    /\ Cardinality(Unlaunched) = 1
    /\ LatchSetAt = "slot"
    /\ Cardinality(Launched) > 1

====
